---- MODULE Spec2Model ----
(***************************************************************************)
(* Model of the morphological search core of obsidian-natural-link:        *)
(* tokenize, the Snowball-backed stemmers and their MultiStemmer           *)
(* composition, and NotesIndex.search with scoreNote / scoreSource /       *)
(* matchPrefix; of the recency ledger RecentNotes with record, prune,      *)
(* boostRecent and toJSON; and of parseQuery.  Each component has its own  *)
(* specification: Spec (search), SpecStem (MultiStemmer.stem), SpecRecent  *)
(* (the life of a ledger), SpecBoost (boostRecent) and SpecParse           *)
(* (parseQuery); the variables of the other components stay at rest.       *)
(*                                                                         *)
(* A text is a sequence of characters; a character is a one-element name.  *)
(* Latin letters stand for themselves.  Cyrillic letters are written by    *)
(* name, because the module is ASCII: "yo" is the letter yo, "YO" its      *)
(* capital, "ye" the letter ye, "zh" the letter zhe, "a" the Cyrillic a.    *)
(* JavaScript numbers are modelled as exact fractions <<num, den>> with    *)
(* den > 0.  For queries of up to three words and sources of up to four    *)
(* tokens the IEEE doubles of scoreSource compare as the fractions do,     *)
(* with one exception that the notes below do not contain: a title of four *)
(* tokens matched by one of two query words scores 0.44999999999999996,    *)
(* just under the 0.45 of a two-token alias matched by one of two words.   *)
(***************************************************************************)
EXTENDS Integers, Sequences, FiniteSets, TLC

VARIABLES notes, stemmers, searched, query, sourceMatches, sourceScores, scored, results,
          stemWord, stemResult, entries, call, rawInput, parsedQuery,
          linkArgs, link, vault, suggest,
          choice, chosen, pc, allIds, draws, editor,
          lastNoteSuggestions, resolvedNote, indexReads, returned,
          settings, unresolvedLinks, cachedIndex, cachedNotes, builds, trigger, offered,
          nativeSuggest, lastSuggestItems, pendingSpecialCharQuery,
          pendingSpecialCharTitle, pendingSpecialCharEditor, doc, patch

(* NotesIndex and the locals of one search *)
searchVars == <<notes, stemmers, searched, query, sourceMatches, sourceScores, scored, results>>

(* the argument and the result of one MultiStemmer.stem call *)
stemVars == <<stemWord, stemResult>>

(* RecentNotes.entries and the last call made on the ledger *)
recentVars == <<entries, call>>

(* the argument and the result of one parseQuery call *)
parseVars == <<rawInput, parsedQuery>>

(* the arguments and the result of one LinkSuggestCore.buildLink call *)
linkVars == <<linkArgs, link>>

(* the files of the vault with their metadata cache, and the arguments and *)
(* the result of one LinkSuggestCore.getSuggestions call                   *)
suggestVars == <<vault, suggest>>

(* NaturalLinkModal.onChooseSuggestion: the suggestion and the query it is *)
(* called with, the suggestion as the handler changes it, the position of  *)
(* the handler, the ids collected and drawn by prepareBlockId, and the     *)
(* text put into the editor                                                *)
chooseVars == <<choice, chosen, pc, allIds, draws, editor>>

(* SuggestSession: its two fields, and since the last                      *)
(* updateNoteSuggestions the number of calls of the selected-index         *)
(* callback and the values getResolvedNote has returned                    *)
sessionVars == <<lastNoteSuggestions, resolvedNote, indexReads, returned>>

(* the plugin settings and the unresolved links of the metadata cache *)
pluginVars == <<settings, unresolvedLinks>>

(* NaturalLinkSuggest: its two fields, the number of buildIndex calls      *)
(* since the last clearCache, and its last onTrigger and getSuggestions    *)
(* calls                                                                   *)
triggerVars == <<cachedIndex, cachedNotes, builds, trigger, offered>>

(* the patch of the native suggest: the suggest object, the plugin fields  *)
(* the wrappers use, the editor, and the last call                         *)
patchVars == <<nativeSuggest, lastSuggestItems, pendingSpecialCharQuery,
               pendingSpecialCharTitle, pendingSpecialCharEditor, doc, patch>>

(* the state of the inline suggest *)
inlineVars == <<pluginVars, triggerVars, patchVars>>

(* the state of the suggestion interfaces *)
uiVars == <<linkVars, suggestVars, chooseVars, sessionVars, inlineVars>>

vars == <<searchVars, stemVars, recentVars, parseVars, uiVars>>

----------------------------------------------------------------------------
(* Bounds of the model *)

MaxNotes == 2

----------------------------------------------------------------------------
(* Characters and texts *)

LatinLower == {"b", "o", "x", "e", "s", "r", "d", "n", "h", "z", "p", "g", "m"}

LatinUpper == {"B", "R", "N"}

CyrillicLower == {"yo", "ye", "zh", "a"}

CyrillicUpper == {"YO"}

Separators == {" ", "-"}

toLowerCase(c) ==
    CASE c = "B" -> "b"
      [] c = "R" -> "r"
      [] c = "N" -> "n"
      [] c = "YO" -> "yo"
      [] OTHER -> c

isWordChar(c) == c \in LatinLower \cup LatinUpper \cup CyrillicLower \cup CyrillicUpper

startsWith(token, prefix) ==
    /\ Len(prefix) <= Len(token)
    /\ SubSeq(token, 1, Len(prefix)) = prefix

endsWith(token, suffix) ==
    /\ Len(suffix) <= Len(token)
    /\ SubSeq(token, Len(token) - Len(suffix) + 1, Len(token)) = suffix

----------------------------------------------------------------------------
(* tokenize: lowercase, split on runs of non-word characters, drop empties *)

lowerText(text) == [i \in 1..Len(text) |-> toLowerCase(text[i])] \o <<>>

(* String.prototype.split on /[^a-zA-Z...0-9]+/ : the pieces between the    *)
(* separator runs, an empty piece where the text starts or ends with a run. *)
RECURSIVE splitFrom(_, _, _, _)
splitFrom(text, i, cur, pieces) ==
    IF i > Len(text) THEN Append(pieces, cur)
    ELSE IF isWordChar(text[i]) THEN splitFrom(text, i + 1, Append(cur, text[i]), pieces)
    ELSE IF i > 1 /\ ~isWordChar(text[i - 1]) THEN splitFrom(text, i + 1, cur, pieces)
    ELSE splitFrom(text, i + 1, <<>>, Append(pieces, cur))

splitWords(text) == splitFrom(text, 1, <<>>, <<>>)

(* tokenize without the filter of empty pieces *)
tokenizeKeepEmpty(text) == splitWords(lowerText(text))

tokenize(text) == SelectSeq(splitWords(lowerText(text)), LAMBDA token : Len(token) > 0)

----------------------------------------------------------------------------
(* Stemmers.  The Snowball algorithms are a library; they are modelled by  *)
(* the suffix rules that decide the words of the model: the English one    *)
(* strips a plural "es"/"s", the Russian one strips the case ending "a",   *)
(* and neither touches a word of the other alphabet.                       *)

snowballEnglish(word) ==
    IF Len(word) > 3 /\ endsWith(word, <<"e", "s">>) THEN SubSeq(word, 1, Len(word) - 2)
    ELSE IF Len(word) > 2 /\ endsWith(word, <<"s">>) THEN SubSeq(word, 1, Len(word) - 1)
    ELSE word

snowballRussian(word) ==
    IF Len(word) > 2 /\ endsWith(word, <<"a">>) THEN SubSeq(word, 1, Len(word) - 1)
    ELSE word

normalizeYo(word) ==
    [i \in 1..Len(word) |->
        IF word[i] = "yo" THEN "ye" ELSE IF word[i] = "YO" THEN "YE" ELSE word[i]] \o <<>>

EnglishStemmer(word) == <<snowballEnglish(word)>>

RussianStemmer(word) == <<snowballRussian(normalizeYo(word))>>

(* the stemmers of the MultiStemmer tests *)
mockStemmerA(word) == <<word \o <<"_", "a">>>>

mockStemmerB(word) == <<word \o <<"_", "b">>>>

sameStemmer(word) == <<word>>

multiResultStemmer(word) == <<<<"s", "t", "e", "m", "1">>, <<"s", "t", "e", "m", "2">>>>

(* an implementation of the Stemmer interface that returns the word and    *)
(* its stem: the interface lets stem() return any list of strings          *)
wordAndStemStemmer(word) == <<word, snowballEnglish(word)>>

subStem(stemmer, word) ==
    CASE stemmer = "russian" -> RussianStemmer(word)
      [] stemmer = "english" -> EnglishStemmer(word)
      [] stemmer = "mockA" -> mockStemmerA(word)
      [] stemmer = "mockB" -> mockStemmerB(word)
      [] stemmer = "same" -> sameStemmer(word)
      [] stemmer = "multiResult" -> multiResultStemmer(word)
      [] stemmer = "wordAndStem" -> wordAndStemStemmer(word)

(* a Set.add that adds an element again *)
setAddAgain(stems, s) == Append(stems, s)

(* Set.add in insertion order: an element already present is not added *)
setAdd(stems, s) == IF \E i \in 1..Len(stems) : stems[i] = s THEN stems ELSE Append(stems, s)

RECURSIVE addAll(_, _, _)
addAll(stems, more, i) ==
    IF i > Len(more) THEN stems ELSE addAll(setAdd(stems, more[i]), more, i + 1)

RECURSIVE multiStemFrom(_, _, _, _)
multiStemFrom(list, word, k, stems) ==
    IF k > Len(list) THEN stems
    ELSE multiStemFrom(list, word, k + 1, addAll(stems, subStem(list[k], word), 1))

(* a composite that hands the word through when it has no sub-stemmer *)
MultiStemmerPassThrough(list, word) ==
    IF list = <<>> THEN <<word>> ELSE multiStemFrom(list, word, 1, <<>>)

MultiStemmer(list, word) == multiStemFrom(list, word, 1, <<>>)

----------------------------------------------------------------------------
(* Numbers: exact fractions <<num, den>>, den > 0 *)

Num(n, d) == <<n, d>>

Zero == Num(0, 1)

numAdd(a, b) == Num(a[1] * b[2] + b[1] * a[2], a[2] * b[2])

numMul(a, b) == Num(a[1] * b[1], a[2] * b[2])

numGT(a, b) == a[1] * b[2] > b[1] * a[2]

numEQ(a, b) == a[1] * b[2] = b[1] * a[2]

numMin(x, y) == IF x < y THEN x ELSE y

QueryWeight == Num(5, 10)

SourceWeight == Num(4, 10)

TitleBonus == Num(1, 10)

----------------------------------------------------------------------------
(* NotesIndex.matchPrefix *)

stemOfAll(list, tokens) == [i \in 1..Len(tokens) |-> MultiStemmer(list, tokens[i])] \o <<>>

(* matchPrefix without the loop over the stems as prefixes *)
matchPrefixNoStemPrefix(list, lastToken, sourceTokens, sourceStems) ==
    IF \E i \in 1..Len(sourceTokens) : startsWith(sourceTokens[i], lastToken) THEN TRUE
    ELSE LET lastStems == MultiStemmer(list, lastToken)
         IN  \E i \in 1..Len(sourceStems) : \E j \in 1..Len(sourceStems[i]) :
                \E k \in 1..Len(lastStems) : sourceStems[i][j] = lastStems[k]

matchPrefix(list, lastToken, sourceTokens, sourceStems) ==
    IF \E i \in 1..Len(sourceTokens) : startsWith(sourceTokens[i], lastToken) THEN TRUE
    ELSE IF \E i \in 1..Len(sourceStems) : \E j \in 1..Len(sourceStems[i]) :
                startsWith(sourceStems[i][j], lastToken) THEN TRUE
    ELSE LET lastStems == MultiStemmer(list, lastToken)
         IN  \E i \in 1..Len(sourceStems) : \E j \in 1..Len(sourceStems[i]) :
                \E k \in 1..Len(lastStems) : sourceStems[i][j] = lastStems[k]

(* one iteration of the fullMatches loop: does this anchor's stem set hit  *)
(* a stem of some source token                                             *)
anchorMatched(queryStems, sourceStems) ==
    \E i \in 1..Len(sourceStems) : \E j \in 1..Len(sourceStems[i]) :
        sourceStems[i][j] \in queryStems

(* countFullMatches looking at the first anchor only *)
countFirstAnchorOnly(fullQueryStems, sourceStems, k) ==
    IF Len(fullQueryStems) >= 1 /\ anchorMatched(fullQueryStems[1], sourceStems) THEN 1 ELSE 0

RECURSIVE countFullMatches(_, _, _)
countFullMatches(fullQueryStems, sourceStems, k) ==
    IF k > Len(fullQueryStems) THEN 0
    ELSE (IF anchorMatched(fullQueryStems[k], sourceStems) THEN 1 ELSE 0)
         + countFullMatches(fullQueryStems, sourceStems, k + 1)

(* NotesIndex.scoreSource, first half: the source's tokens and the match   *)
(* counts.  A source without tokens returns before anything is matched.    *)
sourceMatch(list, sourceText, fullQueryStems, lastToken) ==
    LET sourceTokens == tokenize(sourceText)
    IN  IF Len(sourceTokens) = 0
        THEN [tokens |-> 0, fullMatches |-> 0, lastMatches |-> FALSE]
        ELSE LET sourceStems == stemOfAll(list, sourceTokens)
             IN  [tokens |-> Len(sourceTokens),
                  fullMatches |-> countFullMatches(fullQueryStems, sourceStems, 1),
                  lastMatches |-> matchPrefix(list, lastToken, sourceTokens, sourceStems)]

(* scoreFromCounts without the cap of matchedWords at the token count *)
scoreFromCountsUncapped(fullMatches, lastMatches, anchors, sourceTokenCount, isTitle) ==
    LET totalQueryWords == anchors + 1
        matchedWords == fullMatches + (IF lastMatches THEN 1 ELSE 0)
    IN  IF matchedWords = 0 THEN Zero
        ELSE numAdd(numAdd(numMul(Num(matchedWords, totalQueryWords), QueryWeight),
                           numMul(Num(matchedWords, sourceTokenCount), SourceWeight)),
                    IF isTitle THEN TitleBonus ELSE Zero)

(* scoreFromCounts without the title bonus *)
scoreFromCountsNoBonus(fullMatches, lastMatches, anchors, sourceTokenCount, isTitle) ==
    LET totalQueryWords == anchors + 1
        matchedWords == fullMatches + (IF lastMatches THEN 1 ELSE 0)
    IN  IF matchedWords = 0 THEN Zero
        ELSE numAdd(numMul(Num(matchedWords, totalQueryWords), QueryWeight),
                    numMul(Num(numMin(matchedWords, sourceTokenCount), sourceTokenCount),
                           SourceWeight))

(* NotesIndex.scoreSource, second half: the score from the counts *)
scoreFromCounts(fullMatches, lastMatches, anchors, sourceTokenCount, isTitle) ==
    LET totalQueryWords == anchors + 1
        matchedWords == fullMatches + (IF lastMatches THEN 1 ELSE 0)
    IN  IF matchedWords = 0 THEN Zero
        ELSE LET queryMatchRatio == Num(matchedWords, totalQueryWords)
                 sourceMatchRatio ==
                     Num(numMin(matchedWords, sourceTokenCount), sourceTokenCount)
                 titleBonus == IF isTitle THEN TitleBonus ELSE Zero
             IN  numAdd(numAdd(numMul(queryMatchRatio, QueryWeight),
                               numMul(sourceMatchRatio, SourceWeight)),
                        titleBonus)

(* NotesIndex.scoreSource *)
scoreSource(list, sourceText, fullQueryStems, lastToken, isTitle) ==
    LET m == sourceMatch(list, sourceText, fullQueryStems, lastToken)
    IN  IF m.tokens = 0 THEN Zero
        ELSE scoreFromCounts(m.fullMatches, m.lastMatches, Len(fullQueryStems),
                             m.tokens, isTitle)

(* the sources of a note: the title first, then the aliases in order *)
sourcesOf(note) ==
    <<[text |-> note.title, isTitle |-> TRUE]>>
    \o [a \in 1..Len(note.aliases) |-> [text |-> note.aliases[a], isTitle |-> FALSE]]

(* the scoreSource value of every source of a note, in source order *)
sourceScoresOf(list, note, fullQueryStems, lastToken) ==
    LET sources == sourcesOf(note)
    IN  [k \in 1..Len(sources) |->
            scoreSource(list, sources[k].text, fullQueryStems, lastToken, sources[k].isTitle)]
        \o <<>>

(* the match counts of every source of a note, in source order *)
sourceMatchesOf(list, note, fullQueryStems, lastToken) ==
    LET sources == sourcesOf(note)
    IN  [k \in 1..Len(sources) |->
            sourceMatch(list, sources[k].text, fullQueryStems, lastToken)]
        \o <<>>

RECURSIVE bestFrom(_, _, _)
bestFrom(scores, k, bestScore) ==
    IF k > Len(scores) THEN bestScore
    ELSE bestFrom(scores, k + 1, IF numGT(scores[k], bestScore) THEN scores[k] ELSE bestScore)

(* NotesIndex.scoreNote *)
scoreNote(list, note, fullQueryStems, lastToken) ==
    bestFrom(sourceScoresOf(list, note, fullQueryStems, lastToken), 1, Zero)

(* collectScored keeping the notes that score 0 as well *)
RECURSIVE collectAll(_, _, _, _, _)
collectAll(list, corpus, fullQueryStems, lastToken, i) ==
    IF i > Len(corpus) THEN <<>>
    ELSE <<[note |-> i, score |-> scoreNote(list, corpus[i], fullQueryStems, lastToken)]>>
         \o collectAll(list, corpus, fullQueryStems, lastToken, i + 1)

(* the loop over this.notes: one entry per note whose best score is above 0 *)
RECURSIVE collectScored(_, _, _, _, _)
collectScored(list, corpus, fullQueryStems, lastToken, i) ==
    IF i > Len(corpus) THEN <<>>
    ELSE LET bestScore == scoreNote(list, corpus[i], fullQueryStems, lastToken)
             rest == collectScored(list, corpus, fullQueryStems, lastToken, i + 1)
         IN  IF numGT(bestScore, Zero) THEN <<[note |-> i, score |-> bestScore]>> \o rest
             ELSE rest

(* insertSorted placing an entry before the entries of equal score *)
insertSortedUnstable(sorted, x) ==
    LET later == {p \in 1..Len(sorted) : ~numGT(sorted[p].score, x.score)}
        at == IF later = {} THEN Len(sorted) + 1
              ELSE CHOOSE p \in later : \A r \in later : p <= r
    IN  SubSeq(sorted, 1, at - 1) \o <<x>> \o SubSeq(sorted, at, Len(sorted))

(* insertSorted for the comparator (a, b) => a.score - b.score *)
insertSortedAscending(sorted, x) ==
    LET later == {p \in 1..Len(sorted) : numGT(sorted[p].score, x.score)}
        at == IF later = {} THEN Len(sorted) + 1
              ELSE CHOOSE p \in later : \A r \in later : p <= r
    IN  SubSeq(sorted, 1, at - 1) \o <<x>> \o SubSeq(sorted, at, Len(sorted))

(* Array.prototype.sort with (a, b) => b.score - a.score: stable, descending *)
insertSorted(sorted, x) ==
    LET later == {p \in 1..Len(sorted) : numGT(x.score, sorted[p].score)}
        at == IF later = {} THEN Len(sorted) + 1
              ELSE CHOOSE p \in later : \A r \in later : p <= r
    IN  SubSeq(sorted, 1, at - 1) \o <<x>> \o SubSeq(sorted, at, Len(sorted))

RECURSIVE sortFrom(_, _, _)
sortFrom(items, k, sorted) ==
    IF k > Len(items) THEN sorted ELSE sortFrom(items, k + 1, insertSorted(sorted, items[k]))

sortByScore(items) == sortFrom(items, 1, <<>>)

(* toResult naming the first alias of the note as the match *)
toResultFirstAlias(corpus, s) ==
    [note |-> s.note,
     matchedAlias |-> IF Len(corpus[s.note].aliases) > 0
                      THEN <<corpus[s.note].aliases[1]>> ELSE <<>>]

(* a SearchResult: the note (its position in the corpus) and matchedAlias, *)
(* a sequence holding the alias when the field is set and empty when not   *)
toResult(corpus, s) == [note |-> s.note, matchedAlias |-> <<>>]

fullQueryStemsOf(list, queryTokens) ==
    [k \in 1..(Len(queryTokens) - 1) |->
        {MultiStemmer(list, queryTokens[k])[j] : j \in 1..Len(MultiStemmer(list, queryTokens[k]))}]
    \o <<>>

(* NotesIndex.search, with its locals *)
search(list, corpus, queryText) ==
    LET queryTokens == tokenize(queryText)
    IN  IF Len(queryTokens) = 0
        THEN [sourceMatches |-> <<>>, sourceScores |-> <<>>, scored |-> <<>>,
              results |-> <<>>]
        ELSE LET lastToken == queryTokens[Len(queryTokens)]
                 fullQueryStems == fullQueryStemsOf(list, queryTokens)
                 unsorted == collectScored(list, corpus, fullQueryStems, lastToken, 1)
                 sorted == sortByScore(unsorted)
             IN  [sourceMatches |->
                      [i \in 1..Len(corpus) |->
                          sourceMatchesOf(list, corpus[i], fullQueryStems, lastToken)],
                  sourceScores |->
                      [i \in 1..Len(corpus) |->
                          sourceScoresOf(list, corpus[i], fullQueryStems, lastToken)],
                  scored |-> sorted,
                  results |-> [r \in 1..Len(sorted) |-> toResult(corpus, sorted[r])]]

----------------------------------------------------------------------------------------------------------------------------------------
(* Inputs: the words and texts notes and queries are drawn from *)

box == <<"b", "o", "x">>

Box == <<"B", "o", "x">>

boxes == <<"b", "o", "x", "e", "s">>

boxe == <<"b", "o", "x", "e">>

bo == <<"b", "o">>

red == <<"r", "e", "d">>

Red == <<"R", "e", "d">>

Yozh == <<"YO", "zh">>

yezh == <<"ye", "zh">>

yezha == <<"ye", "zh", "a">>

ye == <<"ye">>

sp == <<" ">>

dash == <<"-">>

RedBox == Red \o sp \o box

RedBoxRedBox == Red \o dash \o box \o sp \o red \o sp \o box

Note(title, aliases) == [title |-> title, aliases |-> aliases]

Notes ==
    { Note(Box, <<>>),
      Note(Box, <<Box>>),
      Note(Yozh, <<Box>>),
      Note(Yozh, <<RedBoxRedBox>>),
      Note(Yozh, <<dash \o dash, boxes, Box>>),
      Note(dash, <<RedBox, Yozh>>) }

Queries ==
    { <<>>, sp \o dash \o sp,
      bo, box, boxes, boxe, ye, yezh, yezha,
      red \o sp \o bo, bo \o sp \o red,
      red \o sp \o box, box \o dash \o Red,
      boxes \o sp \o box, box \o sp \o boxes,
      red \o sp \o box \o sp \o bo }

StemmerLists == {<<>>, <<"russian">>, <<"english">>, <<"russian", "english">>}

SeqsUpTo(S, n) == UNION {[1..k -> S] : k \in 0..n}

Corpora == SeqsUpTo(Notes, MaxNotes)

----------------------------------------------------------------------------
(* The state machine: an index is built over a corpus with a stemmer list  *)
(* (Init), then a query is searched                                        *)

(* the parts of the state that a run about another component leaves alone *)
NoSearch ==
    /\ notes = <<>>
    /\ searched = FALSE
    /\ query = <<>>
    /\ sourceMatches = <<>>
    /\ sourceScores = <<>>
    /\ scored = <<>>
    /\ results = <<>>

NoStem == stemWord = <<>> /\ stemResult = [called |-> FALSE]

NoRecent == entries = <<>> /\ call = [name |-> "none"]

NoParse == rawInput = <<>> /\ parsedQuery = [called |-> FALSE]

NoLink == linkArgs = [name |-> "none"] /\ link = <<>>

NoSuggest == vault = <<>> /\ suggest = [name |-> "none"]

NoChoose ==
    /\ choice = [name |-> "none"]
    /\ chosen = <<>>
    /\ pc = "idle"
    /\ allIds = {}
    /\ draws = <<>>
    /\ editor = <<>>

NoSession ==
    /\ lastNoteSuggestions = <<>>
    /\ resolvedNote = <<>>
    /\ indexReads = 0
    /\ returned = <<>>

NoPlugin == settings = [name |-> "none"] /\ unresolvedLinks = <<>>

NoTrigger ==
    /\ cachedIndex = <<>>
    /\ cachedNotes = <<>>
    /\ builds = 0
    /\ trigger = [name |-> "none"]
    /\ offered = [name |-> "none"]

NoPatch ==
    /\ nativeSuggest = [name |-> "none"]
    /\ lastSuggestItems = <<>>
    /\ pendingSpecialCharQuery = <<>>
    /\ pendingSpecialCharTitle = <<>>
    /\ pendingSpecialCharEditor = <<>>
    /\ doc = [name |-> "none"]
    /\ patch = [name |-> "none"]

NoInline == NoPlugin /\ NoTrigger /\ NoPatch

NoUi == NoLink /\ NoSuggest /\ NoChoose /\ NoSession /\ NoInline

Init ==
    /\ NoStem /\ NoRecent /\ NoParse /\ NoUi
    /\ notes \in Corpora
    /\ stemmers \in StemmerLists
    /\ searched = FALSE
    /\ query = <<>>
    /\ sourceMatches = <<>>
    /\ sourceScores = <<>>
    /\ scored = <<>>
    /\ results = <<>>

Search(queryText) ==
    /\ ~searched
    /\ \E out \in {search(stemmers, notes, queryText)} :
        /\ searched' = TRUE
        /\ query' = queryText
        /\ sourceMatches' = out.sourceMatches
        /\ sourceScores' = out.sourceScores
        /\ scored' = out.scored
        /\ results' = out.results
    /\ UNCHANGED <<notes, stemmers, stemVars, recentVars, parseVars, uiVars>>

Next == \E queryText \in Queries : Search(queryText)

Spec == Init /\ [][Next]_vars

----------------------------------------------------------------------------
(* Vocabulary of the properties: the query and the sources of the state,   *)
(* described by sets rather than by the loops of the code                  *)

QueryTokens == tokenize(query)

TotalQueryWords == Len(QueryTokens)

TrailingToken == QueryTokens[TotalQueryWords]

StemSet(token) ==
    LET stems == MultiStemmer(stemmers, token) IN {stems[j] : j \in 1..Len(stems)}

SourceText(i, k) == IF k = 1 THEN notes[i].title ELSE notes[i].aliases[k - 1]

SourceCount(i) == 1 + Len(notes[i].aliases)

TokenSet(text) == LET tokens == tokenize(text) IN {tokens[j] : j \in 1..Len(tokens)}

SourceStemSet(text) == UNION {StemSet(token) : token \in TokenSet(text)}

LiteralPrefixHit(last, text) == \E token \in TokenSet(text) : startsWith(token, last)

StemPrefixHit(last, text) == \E stem \in SourceStemSet(text) : startsWith(stem, last)

StemEqualHit(last, text) == StemSet(last) \cap SourceStemSet(text) # {}

(* the number of query words q matched by a source text: the anchors whose *)
(* stem set meets the stems of the source, and the last word if it is a    *)
(* prefix of a token or of a stem of the source or shares a stem with it   *)
MatchedWordsOf(q, text) ==
    LET tokens == TokenSet(text)
        stems == UNION {StemSet(token) : token \in tokens}
        last == q[Len(q)]
        anchorHits == Cardinality({a \in 1..(Len(q) - 1) : StemSet(q[a]) \cap stems # {}})
        trailingHit == \/ \E token \in tokens : startsWith(token, last)
                       \/ \E stem \in stems : startsWith(stem, last)
                       \/ StemSet(last) \cap stems # {}
    IN  anchorHits + (IF trailingHit THEN 1 ELSE 0)

TokenCount(text) == Len(tokenize(text))

(* for every source of every note: its token count n and the number m of   *)
(* query words that match it                                               *)
SourceFacts ==
    LET q == QueryTokens
    IN  [i \in 1..Len(notes) |->
            [k \in 1..SourceCount(i) |->
                [n |-> TokenCount(SourceText(i, k)),
                 m |-> MatchedWordsOf(q, SourceText(i, k))]] \o <<>>] \o <<>>

(* the score of a document: the greatest score of its sources *)
DocScore(i) ==
    CHOOSE best \in {sourceScores[i][k] : k \in 1..SourceCount(i)} :
        \A k \in 1..SourceCount(i) : ~numGT(sourceScores[i][k], best)

ResultNotes == {results[r].note : r \in 1..Len(results)}

Position(i) == CHOOSE r \in 1..Len(results) : results[r].note = i

Answered == searched /\ TotalQueryWords > 0

----------------------------------------------------------------------------
(* C1: every source with at least one token and at least one matched query *)
(* word scores 0.5 * matchedWords / totalQueryWords                        *)
(* + 0.4 * min(matchedWords, tokens) / tokens + 0.1 for a title; a source  *)
(* with no token or no matched word scores 0.                              *)
C1_ScoreFormula ==
    Answered =>
        LET facts == SourceFacts
            t == TotalQueryWords
        IN  \A i \in 1..Len(notes) : \A k \in 1..SourceCount(i) :
                LET n == facts[i][k].n
                    m == facts[i][k].m
                    score == sourceScores[i][k]
                IN  IF n = 0 \/ m = 0 THEN score[1] = 0
                    ELSE score[1] * (10 * t * n)
                         = score[2] * (5 * m * n + 4 * numMin(m, n) * t
                                       + (IF k = 1 THEN t * n ELSE 0))

(* a source matched by more query words than it has tokens, one with no    *)
(* token and one with no matched word, all in one search                   *)
C1_Witness ==
    /\ Answered
    /\ LET facts == SourceFacts
       IN  /\ \E i \in 1..Len(notes) : \E k \in 1..SourceCount(i) :
                 facts[i][k].m > facts[i][k].n /\ facts[i][k].n > 0
           /\ \E i \in 1..Len(notes) : \E k \in 1..SourceCount(i) : facts[i][k].n = 0
           /\ \E i \in 1..Len(notes) : \E k \in 1..SourceCount(i) :
                 facts[i][k].n > 0 /\ facts[i][k].m = 0

----------------------------------------------------------------------------
(* the first alias, in alias order, that reaches the document's score *)
WinningAlias(i) ==
    LET a == CHOOSE a \in 1..Len(notes[i].aliases) :
                /\ numEQ(sourceScores[i][a + 1], DocScore(i))
                /\ \A b \in 1..(a - 1) : ~numEQ(sourceScores[i][b + 1], DocScore(i))
    IN  notes[i].aliases[a]

AliasWins(i) == numGT(DocScore(i), sourceScores[i][1])

(* C2: a returned document whose best source is an alias scoring strictly  *)
(* above its title carries that alias (the first such alias) as            *)
(* matchedAlias.                                                           *)
C2_AliasReported ==
    Answered =>
        \A r \in 1..Len(results) :
            AliasWins(results[r].note) =>
                results[r].matchedAlias = <<WinningAlias(results[r].note)>>

(* C3: a result never carries matchedAlias when the title scored at least  *)
(* as high as every alias, also when an alias has the title's text; and a  *)
(* result carries at most one matchedAlias.                                *)
C3_TitleNeverReported ==
    searched =>
        \A r \in 1..Len(results) :
            /\ Len(results[r].matchedAlias) <= 1
            /\ ~AliasWins(results[r].note) => results[r].matchedAlias = <<>>

(* a returned note whose alias has the title's text and scores above 0,    *)
(* the title scoring higher                                                *)
C3_Witness ==
    /\ Answered
    /\ \E r \in 1..Len(results) :
          LET i == results[r].note
          IN  /\ ~AliasWins(i)
              /\ \E a \in 1..Len(notes[i].aliases) :
                    /\ notes[i].aliases[a] = notes[i].title
                    /\ numGT(sourceScores[i][a + 1], Zero)

----------------------------------------------------------------------------
(* the source that gives a document its score: the first one, in source    *)
(* order, that reaches it                                                  *)
BestSource(i) ==
    CHOOSE k \in 1..SourceCount(i) :
        /\ numEQ(sourceScores[i][k], DocScore(i))
        /\ \A j \in 1..(k - 1) : ~numEQ(sourceScores[i][j], DocScore(i))

FullBest(facts, i) == facts[i][BestSource(i)].m = TotalQueryWords

PartialBest(facts, i) ==
    /\ facts[i][BestSource(i)].m > 0
    /\ facts[i][BestSource(i)].m < TotalQueryWords

FullCovers(facts, i, k, j) ==
    /\ facts[i][k].n > 0
    /\ facts[i][k].m = TotalQueryWords
    /\ \E p \in 1..SourceCount(j) : facts[j][p].n > 0 /\ facts[j][p].m > 0
    /\ \A p \in 1..SourceCount(j) :
          (facts[j][p].n > 0 /\ facts[j][p].m > 0) =>
              /\ facts[j][p].m < TotalQueryWords
              /\ facts[j][p].n >= facts[i][k].n
              /\ (p = 1 => k = 1)

----------------------------------------------------------------------------
(* the orderings of the query tokens, each written back as a query text *)
Orderings(n) == {f \in [1..n -> 1..n] : \A a, b \in 1..n : f[a] = f[b] => a = b}

RECURSIVE joinFrom(_, _, _)
joinFrom(tokens, f, k) ==
    IF k > Len(tokens) THEN <<>>
    ELSE (IF k = 1 THEN <<>> ELSE sp) \o tokens[f[k]] \o joinFrom(tokens, f, k + 1)

Reordered(f) == joinFrom(QueryTokens, f, 1)

----------------------------------------------------------------------------
AnchorStems(q) == [a \in 1..(Len(q) - 1) |-> StemSet(q[a])] \o <<>>

AsTitle(q, text) == scoreSource(stemmers, text, AnchorStems(q), q[Len(q)], TRUE)

AsAlias(q, text) == scoreSource(stemmers, text, AnchorStems(q), q[Len(q)], FALSE)

SourceTexts == UNION {{SourceText(i, k) : k \in 1..SourceCount(i)} : i \in 1..Len(notes)}

(* note j matches the query through aliases of the given text and through  *)
(* nothing else                                                            *)
OnlyThroughAlias(j, text) ==
    /\ \E k \in 2..SourceCount(j) : numGT(sourceScores[j][k], Zero)
    /\ \A k \in 1..SourceCount(j) :
          numGT(sourceScores[j][k], Zero) => (k > 1 /\ SourceText(j, k) = text)

(* C6: a text that scores above 0 scores exactly 0.1 more as a title than  *)
(* as an alias, and a document with that title is ranked before a document *)
(* that matches only through an alias of the same text, whatever their     *)
(* order in the corpus.                                                    *)
C6_TitleBonus ==
    Answered =>
        /\ LET q == QueryTokens
           IN  \A text \in SourceTexts :
                  LET alias == AsAlias(q, text)
                  IN  numGT(alias, Zero) =>
                          numEQ(AsTitle(q, text), numAdd(alias, Num(1, 10)))
        /\ \A i, j \in 1..Len(notes) :
              (numGT(sourceScores[i][1], Zero) /\ OnlyThroughAlias(j, notes[i].title)) =>
                  /\ i \in ResultNotes
                  /\ j \in ResultNotes
                  /\ Position(i) < Position(j)

(* the alias-only document comes first in the corpus and second in the     *)
(* results                                                                 *)
C6_Witness ==
    /\ Answered
    /\ \E i, j \in 1..Len(notes) :
          /\ j < i
          /\ numGT(sourceScores[i][1], Zero)
          /\ OnlyThroughAlias(j, notes[i].title)
          /\ Position(i) < Position(j)

----------------------------------------------------------------------------
(* C7: the results are in non-increasing order of document score, and      *)
(* documents of equal score keep their order in the corpus.                *)
C7_SortedStable ==
    searched =>
        \A a, b \in 1..Len(results) :
            a < b =>
                /\ ~numGT(DocScore(results[b].note), DocScore(results[a].note))
                /\ numEQ(DocScore(results[a].note), DocScore(results[b].note))
                       => results[a].note < results[b].note

(* two different notes of equal score, returned in their corpus order *)
C7_Witness ==
    /\ Answered
    /\ \E a, b \in 1..Len(results) :
          /\ a < b
          /\ notes[results[a].note] # notes[results[b].note]
          /\ numEQ(DocScore(results[a].note), DocScore(results[b].note))
          /\ results[a].note < results[b].note

----------------------------------------------------------------------------
(* C8: a document is in the results exactly when one of its sources scores *)
(* above 0, which is when a query word matched that source; no document    *)
(* is returned with score 0, and none is returned twice.                   *)
C8_ExactlyTheMatching ==
    Answered =>
        /\ LET facts == SourceFacts
           IN  \A i \in 1..Len(notes) :
                  /\ i \in ResultNotes
                        <=> \E k \in 1..SourceCount(i) : numGT(sourceScores[i][k], Zero)
                  /\ i \in ResultNotes
                        <=> \E k \in 1..SourceCount(i) :
                                facts[i][k].n > 0 /\ facts[i][k].m > 0
        /\ ResultNotes \subseteq 1..Len(notes)
        /\ \A r \in 1..Len(results) : numGT(DocScore(results[r].note), Zero)
        /\ \A a, b \in 1..Len(results) : results[a].note = results[b].note => a = b

(* one note returned and another left out *)
C8_Witness ==
    /\ Answered
    /\ \E i, j \in 1..Len(notes) : i \in ResultNotes /\ j \notin ResultNotes

----------------------------------------------------------------------------
NoWordChar(text) == \A c \in 1..Len(text) : ~isWordChar(text[c])

(* C9: for any corpus, the empty one included, a query without tokens      *)
(* (empty, or separators only) returns the empty sequence.                 *)
C9_EmptyQuery == (searched /\ NoWordChar(query)) => results = <<>>

(* a query of separators, searched over a note that other queries find *)
C9_Witness ==
    /\ searched
    /\ Len(query) > 0
    /\ NoWordChar(query)
    /\ \E i \in 1..Len(notes) : TokenCount(notes[i].title) > 0
    /\ results = <<>>

----------------------------------------------------------------------------
(* C10: the last query token counts as matched against a source exactly    *)
(* when it is a prefix of a raw source token, or a prefix of a stem of a   *)
(* source token, or one of its stems is a stem of a source token.          *)
C10_TrailingMatch ==
    Answered =>
        LET last == TrailingToken
        IN  \A i \in 1..Len(notes) : \A k \in 1..SourceCount(i) :
                sourceMatches[i][k].lastMatches
                    <=> \/ LiteralPrefixHit(last, SourceText(i, k))
                        \/ StemPrefixHit(last, SourceText(i, k))
                        \/ StemEqualHit(last, SourceText(i, k))

(* a complete last word: matched through equal stems alone *)
C10_Witness ==
    /\ Answered
    /\ LET last == TrailingToken
       IN  \E i \in 1..Len(notes) : \E k \in 1..SourceCount(i) :
              /\ sourceMatches[i][k].lastMatches
              /\ ~LiteralPrefixHit(last, SourceText(i, k))
              /\ ~StemPrefixHit(last, SourceText(i, k))
              /\ StemEqualHit(last, SourceText(i, k))

----------------------------------------------------------------------------
(* C11: with a composite stemmer of zero sub-stemmers every search is      *)
(* answered, no anchor token is counted as matched, the last token is      *)
(* counted as matched exactly when it is a literal prefix of a raw token   *)
(* of the source, and the results are the notes with such a source.        *)
C11_NoStemmers ==
    (searched /\ stemmers = <<>>) =>
        /\ Len(results) <= Len(notes)
        /\ Answered =>
              LET last == TrailingToken
              IN  /\ \A i \in 1..Len(notes) : \A k \in 1..SourceCount(i) :
                        /\ sourceMatches[i][k].fullMatches = 0
                        /\ sourceMatches[i][k].lastMatches
                              <=> LiteralPrefixHit(last, SourceText(i, k))
                  /\ \A i \in 1..Len(notes) :
                        i \in ResultNotes
                            <=> \E k \in 1..SourceCount(i) :
                                    LiteralPrefixHit(last, SourceText(i, k))

(* no sub-stemmer, and a source that holds an anchor token of the query    *)
(* word for word and is found through the last token alone                 *)
C11_Witness ==
    /\ Answered
    /\ stemmers = <<>>
    /\ TotalQueryWords >= 2
    /\ \E i \in ResultNotes : \E k \in 1..SourceCount(i) :
          /\ QueryTokens[1] \in TokenSet(SourceText(i, k))
          /\ sourceMatches[i][k].fullMatches = 0
          /\ sourceMatches[i][k].lastMatches

----------------------------------------------------------------------------
(* MultiStemmer.stem on its own: a list of sub-stemmers and a word *)

MaxStemmers == 2

StemmerKinds == {"russian", "english", "mockA", "mockB", "same", "multiResult", "wordAndStem"}

StemWords == {box, boxes, Yozh, yezha}

InitStem ==
    /\ NoSearch /\ NoRecent /\ NoParse /\ NoUi
    /\ stemmers \in SeqsUpTo(StemmerKinds, MaxStemmers)
    /\ stemWord \in StemWords
    /\ stemResult = [called |-> FALSE]

Stem ==
    /\ ~stemResult.called
    /\ stemResult' = [called |-> TRUE, value |-> MultiStemmer(stemmers, stemWord)]
    /\ UNCHANGED <<searchVars, stemWord, recentVars, parseVars, uiVars>>

NextStem == Stem

SpecStem == InitStem /\ [][NextStem]_vars

(* what sub-stemmer k returns for the word, as a list and as a set *)
SubResult(k) == subStem(stemmers[k], stemWord)

SubStems(k) == {SubResult(k)[j] : j \in 1..Len(SubResult(k))}

Once(list) == \A a, b \in 1..Len(list) : list[a] = list[b] => a = b

(* the result holds every stem of every sub-stemmer, nothing else, and no  *)
(* stem twice                                                              *)
UnionOnce ==
    /\ {stemResult.value[j] : j \in 1..Len(stemResult.value)}
           = UNION {SubStems(k) : k \in 1..Len(stemmers)}
    /\ Once(stemResult.value)

(* a list is what another keeps when each repeated element is dropped:     *)
(* the same elements, each once, in the order of their first occurrence    *)
FirstOccurrences(kept, list) ==
    /\ Once(kept)
    /\ {kept[j] : j \in 1..Len(kept)} = {list[j] : j \in 1..Len(list)}
    /\ \A a, b \in 1..Len(kept) :
          a < b =>
              \E i \in 1..Len(list) :
                  /\ list[i] = kept[a]
                  /\ \A j \in 1..Len(list) : list[j] = kept[b] => i < j

----------------------------------------------------------------------------
(* RecentNotes.  A Map is the list of its entries in insertion order; a    *)
(* plain object is the list of its own properties in property order:       *)
(* integer-like keys first, in ascending numeric order, then the other     *)
(* keys in the order of their creation.                                    *)

(* the capacity of the ledger, 1000 in the source, scaled to the model *)
MAX_RECENT_COUNT == 2

MAX_BOOST_COUNT == 3

Entry(title, timestamp) == [title |-> title, timestamp |-> timestamp]

(* the keys that are canonical numeric strings, with their values *)
IndexKeys == {"7", "10"}

indexValue(key) == IF key = "7" THEN 7 ELSE 10

mapHas(map, key) == \E i \in 1..Len(map) : map[i].title = key

(* Map.prototype.get: no value, or the one value of the key *)
mapGet(map, key) ==
    IF mapHas(map, key)
    THEN <<map[CHOOSE i \in 1..Len(map) : map[i].title = key].timestamp>>
    ELSE <<>>

(* Map.prototype.set: a key already present keeps its place *)
mapSet(map, key, value) ==
    IF mapHas(map, key)
    THEN [i \in 1..Len(map) |->
             IF map[i].title = key THEN Entry(key, value) ELSE map[i]] \o <<>>
    ELSE Append(map, Entry(key, value))

(* the integer-like properties of a list of entries, in ascending order *)
RECURSIVE indexProperties(_, _)
indexProperties(list, keys) ==
    IF keys = {} THEN <<>>
    ELSE LET least == CHOOSE k \in keys : \A other \in keys : indexValue(k) <= indexValue(other)
         IN  <<Entry(least, mapGet(list, least)[1])>> \o indexProperties(list, keys \ {least})

(* Object.fromEntries of the entries of a Map *)
objectFromEntries(list) ==
    indexProperties(list, {list[i].title : i \in 1..Len(list)} \cap IndexKeys)
        \o SelectSeq(list, LAMBDA e : e.title \notin IndexKeys)

(* Object.entries: the own properties in property order *)
objectEntries(object) == object

(* data ?? {} : an absent argument is the list of no object, <<>>; an      *)
(* object is the one-element list of it                                    *)
orEmptyObject(data) == IF data = <<>> THEN <<>> ELSE data[1]

(* a constructor that does not read its argument *)
RecentNotesIgnoringData(data) == <<>>

RecentNotes(data) == objectEntries(orEmptyObject(data))

toJSON(map) == objectFromEntries(map)

(* a stable sort that puts the older entries first *)
insertByTimestampAscending(sorted, x) ==
    LET later == {p \in 1..Len(sorted) : sorted[p].timestamp > x.timestamp}
        at == IF later = {} THEN Len(sorted) + 1
              ELSE CHOOSE p \in later : \A r \in later : p <= r
    IN  SubSeq(sorted, 1, at - 1) \o <<x>> \o SubSeq(sorted, at, Len(sorted))

(* Array.prototype.sort with (a, b) => b.timestamp - a.timestamp: stable,  *)
(* descending                                                              *)
insertByTimestamp(sorted, x) ==
    LET later == {p \in 1..Len(sorted) : x.timestamp > sorted[p].timestamp}
        at == IF later = {} THEN Len(sorted) + 1
              ELSE CHOOSE p \in later : \A r \in later : p <= r
    IN  SubSeq(sorted, 1, at - 1) \o <<x>> \o SubSeq(sorted, at, Len(sorted))

RECURSIVE sortByTimestampFrom(_, _, _)
sortByTimestampFrom(list, k, sorted) ==
    IF k > Len(list) THEN sorted
    ELSE sortByTimestampFrom(list, k + 1, insertByTimestamp(sorted, list[k]))

sortByTimestamp(list) == sortByTimestampFrom(list, 1, <<>>)

(* Array.prototype.slice(0, end) *)
slice(list, end) ==
    LET stop == IF end < 0 THEN (IF Len(list) + end < 0 THEN 0 ELSE Len(list) + end)
                ELSE (IF end > Len(list) THEN Len(list) ELSE end)
    IN  SubSeq(list, 1, stop)

prune(map) ==
    IF Len(map) <= MAX_RECENT_COUNT THEN map
    ELSE slice(sortByTimestamp(map), MAX_RECENT_COUNT)

record(map, noteTitle, now) == prune(mapSet(map, noteTitle, now))

(* the accessor passed to boostRecent: items are records with a title *)
getTitle(item) == item.title

(* the loop of boostRecent: the items whose title is in the ledger, with   *)
(* their index and timestamp                                               *)
RECURSIVE recentFrom(_, _, _, _)
recentFrom(map, items, i, recentInResults) ==
    IF i > Len(items) THEN recentInResults
    ELSE LET ts == mapGet(map, getTitle(items[i]))
         IN  recentFrom(map, items, i + 1,
                        IF ts # <<>>
                        THEN Append(recentInResults, [index |-> i, timestamp |-> ts[1]])
                        ELSE recentInResults)

(* a boostRecent whose rest is the whole list *)
boostFromKeepAll(items, recentInResults, count) ==
    LET top == slice(sortByTimestamp(recentInResults), count)
        boosted == [j \in 1..Len(top) |-> items[top[j].index]] \o <<>>
    IN  [value |-> boosted \o items, same |-> FALSE]

(* the rest of boostRecent, without the early return *)
boostFrom(items, recentInResults, count) ==
    LET top == slice(sortByTimestamp(recentInResults), count)
        boostedIndices == {top[j].index : j \in 1..Len(top)}
        boosted == [j \in 1..Len(top) |-> items[top[j].index]] \o <<>>
        restIndices == SelectSeq([i \in 1..Len(items) |-> i] \o <<>>,
                                 LAMBDA i : i \notin boostedIndices)
        rest == [j \in 1..Len(restIndices) |-> items[restIndices[j]]] \o <<>>
    IN  [value |-> boosted \o rest, same |-> FALSE]

(* the default of the parameter count: an absent argument is <<>> *)
countOrDefault(count) == IF count = <<>> THEN MAX_BOOST_COUNT ELSE count[1]

(* a boostRecent that builds a new list even without a hit *)
boostRecentAlwaysNew(map, items, count) ==
    boostFrom(items, recentFrom(map, items, 1, <<>>), countOrDefault(count))

(* a boostRecent that boosts every hit *)
boostRecentEveryHit(map, items, count) ==
    LET recentInResults == recentFrom(map, items, 1, <<>>)
    IN  IF Len(recentInResults) = 0 THEN [value |-> items, same |-> TRUE]
        ELSE boostFrom(items, recentInResults, Len(recentInResults))

(* the returned list, and whether it is the very list that was passed *)
boostRecent(map, items, count) ==
    LET recentInResults == recentFrom(map, items, 1, <<>>)
    IN  IF Len(recentInResults) = 0 THEN [value |-> items, same |-> TRUE]
        ELSE boostFrom(items, recentInResults, countOrDefault(count))

----------------------------------------------------------------------------
(* The life of a ledger: hydration, then record calls and reloads *)

MaxHydrated == 3

Titles == {"A", "B", "7", "10"}

Clock == {1, 2}

(* the lists of up to n entries with different titles *)
EntryLists(n) ==
    {list \in SeqsUpTo({Entry(t, ts) : t \in Titles, ts \in Clock}, n) :
        \A a, b \in 1..Len(list) : list[a].title = list[b].title => a = b}

(* the stored mappings: nothing stored, or an object of up to MaxHydrated  *)
(* properties                                                              *)
Hydrations == {<<>>} \cup {<<objectFromEntries(list)>> : list \in EntryLists(MaxHydrated)}

InitRecent ==
    /\ NoSearch /\ NoStem /\ NoParse /\ NoUi
    /\ stemmers = <<>>
    /\ \E data \in Hydrations :
          /\ entries = RecentNotes(data)
          /\ call = [name |-> "new", data |-> data]

(* record(noteTitle) with Date.now() = now *)
Record(noteTitle, now) ==
    /\ entries' = record(entries, noteTitle, now)
    /\ call' = [name |-> "record", title |-> noteTitle, now |-> now, before |-> entries]
    /\ UNCHANGED <<searchVars, stemVars, parseVars, uiVars>>

(* saveRecentNotes and the next loadSettings: the ledger is replaced by    *)
(* one hydrated from its own toJSON()                                      *)
Reload ==
    /\ call.name # "reload"
    /\ entries' = RecentNotes(<<toJSON(entries)>>)
    /\ call' = [name |-> "reload", before |-> entries]
    /\ UNCHANGED <<searchVars, stemVars, parseVars, uiVars>>

NextRecent ==
    \/ \E noteTitle \in Titles, now \in Clock : Record(noteTitle, now)
    \/ Reload

SpecRecent == InitRecent /\ [][NextRecent]_vars

----------------------------------------------------------------------------
(* Vocabulary of the ledger properties *)

EntrySet(map) == {map[i] : i \in 1..Len(map)}

TitlesOf(map) == {map[i].title : i \in 1..Len(map)}

OnePerTitle(map) == \A a, b \in 1..Len(map) : map[a].title = map[b].title => a = b

Recorded == call.name = "record"

(* the ledger of a record call after the upsert and before the pruning:    *)
(* the entries before the call without the recorded title, and the         *)
(* recorded title with the clock value                                     *)
Upserted ==
    {e \in EntrySet(call.before) : e.title # call.title} \cup {Entry(call.title, call.now)}

(* C13 as stated: in every state of a ledger, after hydration from any     *)
(* mapping and after any record calls, the ledger holds at most            *)
(* MAX_RECENT_COUNT entries and at most one entry per title.               *)
C13_CapacityAndOnePerTitle ==
    /\ Len(entries) <= MAX_RECENT_COUNT
    /\ OnePerTitle(entries)

(* C14 as stated: after record(title) the ledger holds exactly one entry   *)
(* for the title, with the clock value read by the call, also when the     *)
(* call prunes: the entry just recorded is never the one evicted.          *)
C14_RecordedKept ==
    Recorded =>
        /\ Cardinality({i \in 1..Len(entries) : entries[i].title = call.title}) = 1
        /\ mapGet(entries, call.title) = <<call.now>>

(* C15: when the upsert of a record call leaves more than MAX_RECENT_COUNT *)
(* entries, the call retains exactly MAX_RECENT_COUNT of them and every    *)
(* retained entry is at least as recent as every discarded one; otherwise  *)
(* the call removes no entry.                                              *)
C15_PruneOldest ==
    Recorded =>
        IF Cardinality(Upserted) > MAX_RECENT_COUNT
        THEN /\ Len(entries) = MAX_RECENT_COUNT
             /\ OnePerTitle(entries)
             /\ EntrySet(entries) \subseteq Upserted
             /\ \A kept \in EntrySet(entries) : \A discarded \in Upserted \ EntrySet(entries) :
                   kept.timestamp >= discarded.timestamp
        ELSE /\ EntrySet(entries) = Upserted
             /\ OnePerTitle(entries)

(* a full ledger takes a new title and gives up an entry that is older     *)
(* than every entry it keeps                                               *)
C15_Witness ==
    /\ Recorded
    /\ Len(call.before) = MAX_RECENT_COUNT
    /\ Cardinality(Upserted) = MAX_RECENT_COUNT + 1
    /\ mapGet(entries, call.title) = <<call.now>>
    /\ \E discarded \in Upserted \ EntrySet(entries) :
          \A kept \in EntrySet(entries) : kept.timestamp > discarded.timestamp

----------------------------------------------------------------------------
(* boostRecent on its own: a hydrated ledger, a list of items and a count *)

MaxItems == 3

Item(title, tag) == [title |-> title, tag |-> tag]

(* two items of one title, items of other titles, and a title that no      *)
(* ledger below holds                                                      *)
ItemPool == {Item("A", 1), Item("A", 2), Item("B", 1), Item("7", 1), Item("Z", 1)}

ItemLists == SeqsUpTo(ItemPool, MaxItems)

(* no argument, or a count from 0 to MAX_BOOST_COUNT *)
Counts == {<<>>} \cup {<<c>> : c \in 0..MAX_BOOST_COUNT}

BoostData ==
    {<<>>, <<(<<>>)>>} \cup
    {<<objectFromEntries(list)>> : list \in
        { <<Entry("B", 1)>>,
          <<Entry("10", 1)>>,
          <<Entry("B", 3), Entry("A", 1)>>,
          <<Entry("A", 2), Entry("B", 2)>>,
          <<Entry("A", 3), Entry("B", 2), Entry("7", 1)>>,
          <<Entry("A", 1), Entry("B", 2), Entry("7", 3)>> }}

InitBoost ==
    /\ NoSearch /\ NoStem /\ NoParse /\ NoUi
    /\ stemmers = <<>>
    /\ \E data \in BoostData :
          /\ entries = RecentNotes(data)
          /\ call = [name |-> "new", data |-> data]

BoostRecent(items, count) ==
    /\ call.name = "new"
    /\ call' = [name |-> "boostRecent", items |-> items, count |-> count,
                ledger |-> entries, out |-> boostRecent(entries, items, count)]
    /\ UNCHANGED <<searchVars, stemVars, parseVars, entries, uiVars>>

NextBoost == \E items \in ItemLists, count \in Counts : BoostRecent(items, count)

SpecBoost == InitBoost /\ [][NextBoost]_vars

Boosted == call.name = "boostRecent"

(* the indices of the items whose title is in the ledger *)
Hits == {i \in 1..Len(call.items) : call.items[i].title \in TitlesOf(entries)}

HitTime(i) == mapGet(entries, call.items[i].title)[1]

CountAsked == IF call.count = <<>> THEN MAX_BOOST_COUNT ELSE call.count[1]

Cutoff == IF CountAsked < Cardinality(Hits) THEN CountAsked ELSE Cardinality(Hits)

(* C16: with at least one hit, the output is the items rearranged: first   *)
(* min(count, hits) hits, none older than a hit left behind, most recent   *)
(* first, then every other item in its original relative order.            *)
C16_BoostedFirst ==
    (Boosted /\ Hits # {}) =>
        \E p \in Orderings(Len(call.items)) :
            /\ Len(call.out.value) = Len(call.items)
            /\ \A a \in 1..Len(call.items) : call.out.value[a] = call.items[p[a]]
            /\ \A a \in 1..Cutoff : p[a] \in Hits
            /\ \A a, b \in 1..Cutoff : a < b => HitTime(p[a]) >= HitTime(p[b])
            /\ \A a \in 1..Cutoff : \A h \in Hits \ {p[b] : b \in 1..Cutoff} :
                  HitTime(p[a]) >= HitTime(h)
            /\ \A a, b \in (Cutoff + 1)..Len(call.items) : a < b => p[a] < p[b]

(* three hits and a count of two: two hits are moved to the front in a new *)
(* order and the third stays behind                                        *)
C16_Witness ==
    /\ Boosted
    /\ Cardinality(Hits) = 3
    /\ Cutoff = 2
    /\ HitTime(1) < HitTime(2)
    /\ call.out.value[1] = call.items[2]
    /\ call.out.value[2] = call.items[1]

(* C17: without a hit, boostRecent returns the very list it was given, for *)
(* every count.                                                            *)
C17_NoHitSameList ==
    (Boosted /\ Hits = {}) => (call.out.same /\ call.out.value = call.items)

(* a ledger with an entry and a list with an item, and no hit *)
C17_Witness ==
    /\ Boosted
    /\ Hits = {}
    /\ entries # <<>>
    /\ call.items # <<>>
    /\ call.out.same

----------------------------------------------------------------------------
Reloaded == call.name = "reload"

(* C18: a ledger hydrated from the toJSON() of a ledger holds the same     *)
(* title-to-timestamp mapping and gives the same boostRecent output for    *)
(* every list of items and every count; hydrating from no data or from an  *)
(* empty mapping gives an empty ledger.                                    *)
C18_RoundTrip ==
    /\ Reloaded =>
          /\ OnePerTitle(entries)
          /\ EntrySet(entries) = EntrySet(call.before)
          /\ \A items \in ItemLists : \A count \in Counts :
                boostRecent(entries, items, count) = boostRecent(call.before, items, count)
    /\ (call.name = "new" /\ call.data \in {<<>>, <<(<<>>)>>}) => entries = <<>>

(* a ledger whose entries come back from the round trip in another order   *)
C18_Witness ==
    /\ Reloaded
    /\ Len(call.before) >= 2
    /\ entries # call.before
    /\ EntrySet(entries) = EntrySet(call.before)

----------------------------------------------------------------------------
(* parseQuery.  An optional part is the list of no text when it is absent  *)
(* and the one-element list of its text when it is present, so that an     *)
(* empty part differs from an absent one.  Indices are those of            *)
(* JavaScript: the first character has index 0 and -1 means not found.     *)

indexOf(text, ch) ==
    LET found == {i \in 1..Len(text) : text[i] = ch}
    IN  IF found = {} THEN -1 ELSE (CHOOSE i \in found : \A j \in found : i <= j) - 1

lastIndexOf(text, ch) ==
    LET found == {i \in 1..Len(text) : text[i] = ch}
    IN  IF found = {} THEN -1 ELSE (CHOOSE i \in found : \A j \in found : i >= j) - 1

(* a substring(start) that begins one character early *)
substringFromEarly(text, start) == SubSeq(text, start, Len(text))

(* String.prototype.substring(start, end) and substring(start) *)
substring(text, start, end) == SubSeq(text, start + 1, end)

substringFrom(text, start) == SubSeq(text, start + 1, Len(text))

ParsedQuery(notePart, headingPart, blockPart, displayPart) ==
    [called |-> TRUE, notePart |-> notePart, headingPart |-> headingPart,
     blockPart |-> blockPart, displayPart |-> displayPart]

(* a split that takes the heading whenever the target has a hash *)
splitTargetHashWins(linkTarget, displayPart) ==
    LET hashIdx == indexOf(linkTarget, "#")
        caretIdx == indexOf(linkTarget, "^")
    IN  IF hashIdx # -1
        THEN ParsedQuery(substring(linkTarget, 0, hashIdx),
                         <<substringFrom(linkTarget, hashIdx + 1)>>, <<>>, displayPart)
        ELSE IF caretIdx # -1
        THEN ParsedQuery(substring(linkTarget, 0, caretIdx),
                         <<>>, <<substringFrom(linkTarget, caretIdx + 1)>>, displayPart)
        ELSE ParsedQuery(linkTarget, <<>>, <<>>, displayPart)

(* parseQuery from the search for the delimiters on *)
splitTarget(linkTarget, displayPart) ==
    LET hashIdx == indexOf(linkTarget, "#")
        caretIdx == indexOf(linkTarget, "^")
        heading == hashIdx # -1 /\ (caretIdx = -1 \/ hashIdx < caretIdx)
        delimIdx == IF heading THEN hashIdx ELSE IF caretIdx # -1 THEN caretIdx ELSE -1
        delimType == IF heading THEN "heading"
                     ELSE IF caretIdx # -1 THEN "block" ELSE "undefined"
    IN  IF delimIdx # -1 /\ delimType = "heading"
        THEN ParsedQuery(substring(linkTarget, 0, delimIdx),
                         <<substringFrom(linkTarget, delimIdx + 1)>>, <<>>, displayPart)
        ELSE IF delimIdx # -1 /\ delimType = "block"
        THEN ParsedQuery(substring(linkTarget, 0, delimIdx),
                         <<>>, <<substringFrom(linkTarget, delimIdx + 1)>>, displayPart)
        ELSE ParsedQuery(linkTarget, <<>>, <<>>, displayPart)

(* a parseQuery that splits at the last pipe *)
parseQueryLastPipe(raw) ==
    LET pipeIdx == lastIndexOf(raw, "|")
    IN  IF pipeIdx # -1
        THEN splitTarget(substring(raw, 0, pipeIdx), <<substringFrom(raw, pipeIdx + 1)>>)
        ELSE splitTarget(raw, <<>>)

parseQuery(raw) ==
    LET pipeIdx == indexOf(raw, "|")
    IN  IF pipeIdx # -1
        THEN splitTarget(substring(raw, 0, pipeIdx), <<substringFrom(raw, pipeIdx + 1)>>)
        ELSE splitTarget(raw, <<>>)

MaxRaw == 4

RawChars == {"n", "|", "#", "^"}

RawQueries == SeqsUpTo(RawChars, MaxRaw)

InitParse ==
    /\ NoSearch /\ NoStem /\ NoRecent /\ NoUi
    /\ stemmers = <<>>
    /\ rawInput \in RawQueries
    /\ parsedQuery = [called |-> FALSE]

Parse ==
    /\ ~parsedQuery.called
    /\ parsedQuery' = parseQuery(rawInput)
    /\ UNCHANGED <<searchVars, stemVars, recentVars, rawInput, uiVars>>

NextParse == Parse

SpecParse == InitParse /\ [][NextParse]_vars

(* Vocabulary of the parser properties *)
Places(text, chars) == {i \in 1..Len(text) : text[i] \in chars}

First(places) == CHOOSE i \in places : \A j \in places : i <= j

Pipes == Places(rawInput, {"|"})

(* the link target and the display text, read off the raw input *)
Target == IF Pipes = {} THEN rawInput ELSE SubSeq(rawInput, 1, First(Pipes) - 1)

AfterPipe == SubSeq(rawInput, First(Pipes) + 1, Len(rawInput))

(* the parts written back as a link target *)
Rejoined ==
    parsedQuery.notePart
        \o (IF parsedQuery.headingPart # <<>> THEN <<"#">> \o parsedQuery.headingPart[1] ELSE <<>>)
        \o (IF parsedQuery.blockPart # <<>> THEN <<"^">> \o parsedQuery.blockPart[1] ELSE <<>>)

(* C19: with a pipe in the raw input, displayPart is present and is the    *)
(* text after the first pipe, and the other parts are made of the text     *)
(* before it alone; without a pipe, displayPart is absent and the other    *)
(* parts are made of the whole input.                                      *)
C19_FirstPipe ==
    parsedQuery.called =>
        /\ Rejoined = Target
        /\ IF Pipes = {} THEN parsedQuery.displayPart = <<>>
           ELSE parsedQuery.displayPart = <<AfterPipe>>

(* a second pipe and a hash after the first pipe, and no delimiter before  *)
(* it: they are display text                                               *)
C19_Witness ==
    /\ parsedQuery.called
    /\ Cardinality(Pipes) >= 2
    /\ Places(AfterPipe, {"#"}) # {}
    /\ Places(Target, {"#", "^"}) = {}
    /\ parsedQuery.headingPart = <<>>
    /\ parsedQuery.blockPart = <<>>

Hashes == Places(Target, {"#"})

Carets == Places(Target, {"^"})

(* C20: at most one of headingPart and blockPart is present: headingPart   *)
(* when the target's first hash comes before every caret, blockPart when   *)
(* its first caret comes before every hash; the part is the text after     *)
(* that first delimiter and notePart the text before it; without a         *)
(* delimiter notePart is the target.                                       *)
C20_FirstDelimiter ==
    parsedQuery.called =>
        /\ ~(parsedQuery.headingPart # <<>> /\ parsedQuery.blockPart # <<>>)
        /\ parsedQuery.headingPart # <<>>
              <=> (Hashes # {} /\ \A c \in Carets : First(Hashes) < c)
        /\ parsedQuery.blockPart # <<>>
              <=> (Carets # {} /\ \A h \in Hashes : First(Carets) < h)
        /\ IF Hashes \cup Carets = {} THEN parsedQuery.notePart = Target
           ELSE LET at == First(Hashes \cup Carets)
                    filter == IF parsedQuery.headingPart # <<>>
                              THEN parsedQuery.headingPart ELSE parsedQuery.blockPart
                IN  /\ parsedQuery.notePart = SubSeq(Target, 1, at - 1)
                    /\ filter = <<SubSeq(Target, at + 1, Len(Target))>>

(* a caret before a hash: a block part that holds the hash *)
C20_Witness ==
    /\ parsedQuery.called
    /\ Hashes # {}
    /\ Carets # {}
    /\ First(Carets) < First(Hashes)
    /\ parsedQuery.blockPart # <<>>
    /\ Places(parsedQuery.blockPart[1], {"#"}) # {}
    /\ parsedQuery.headingPart = <<>>

----------------------------------------------------------------------------
(* C29: for every ledger, list and count, the output of boostRecent is the *)
(* input rearranged, every position of the input taken exactly once, and   *)
(* the ledger after the call is the ledger before it.                      *)
C29_Permutation ==
    Boosted =>
        /\ Len(call.out.value) = Len(call.items)
        /\ \E p \in Orderings(Len(call.items)) :
              \A a \in 1..Len(call.items) : call.out.value[a] = call.items[p[a]]
        /\ call.out.same => call.out.value = call.items
        /\ entries = call.ledger

(* two items of one title, both hits, one of them moved to the front over  *)
(* an item that is not a hit                                               *)
C29_Witness ==
    /\ Boosted
    /\ \E a, b \in Hits : a # b /\ call.items[a].title = call.items[b].title
    /\ Cutoff = 1
    /\ 1 \notin Hits
    /\ call.out.value # call.items

(* C30: notePart, then the hash and headingPart or the caret and           *)
(* blockPart when one is present, then the pipe and displayPart when it is *)
(* present, is the raw input; and notePart holds no pipe, hash or caret.   *)
C30_NothingLost ==
    parsedQuery.called =>
        /\ Rejoined \o (IF parsedQuery.displayPart # <<>>
                         THEN <<"|">> \o parsedQuery.displayPart[1] ELSE <<>>)
              = rawInput
        /\ Places(parsedQuery.notePart, {"|", "#", "^"}) = {}

(* a note, a heading and a display text that holds a hash *)
C30_Witness ==
    /\ parsedQuery.called
    /\ parsedQuery.notePart # <<>>
    /\ parsedQuery.headingPart # <<>>
    /\ parsedQuery.displayPart # <<>>
    /\ Places(parsedQuery.displayPart[1], {"#"}) # {}

----------------------------------------------------------------------------
(* LinkSuggestCore: the wikilink built from a suggestion and the raw query *)

MaxLinkQuery == 4

(* String.prototype.trim; the white space of the model is the space *)
isWhiteSpace(ch) == ch = " "

RECURSIVE trimStart(_)
trimStart(text) ==
    IF text # <<>> /\ isWhiteSpace(Head(text)) THEN trimStart(Tail(text)) ELSE text

RECURSIVE trimEnd(_)
trimEnd(text) ==
    IF text # <<>> /\ isWhiteSpace(text[Len(text)])
    THEN trimEnd(SubSeq(text, 1, Len(text) - 1))
    ELSE text

trim(text) == trimEnd(trimStart(text))

NoteInfo(path, title, aliases) == [path |-> path, title |-> title, aliases |-> aliases]

(* a LinkSuggestion; the fields a type does not have are empty, and the    *)
(* optional matchedAlias, blockId and needsWrite hold no or one value      *)
LinkSuggestion(type, note, matchedAlias, heading, level, blockId, blockText, needsWrite) ==
    [type |-> type, note |-> note, matchedAlias |-> matchedAlias, heading |-> heading,
     level |-> level, blockId |-> blockId, blockText |-> blockText,
     needsWrite |-> needsWrite]

noteSuggestion(note, matchedAlias) ==
    LinkSuggestion("note", note, matchedAlias, <<>>, 0, <<>>, <<>>, <<>>)

headingSuggestion(note, heading, level) ==
    LinkSuggestion("heading", note, <<>>, heading, level, <<>>, <<>>, <<>>)

blockSuggestion(note, blockId, blockText, needsWrite) ==
    LinkSuggestion("block", note, <<>>, <<>>, 0, blockId, blockText, needsWrite)

(* `${value}` of an optional string: the text "undefined" when it is absent *)
templateOf(optional) ==
    IF optional = <<>> THEN <<"u", "n", "d", "e", "f", "i", "n", "e", "d">> ELSE optional[1]

getLinkTarget(item) ==
    CASE item.type = "note" -> item.note.title
      [] item.type = "heading" -> item.note.title \o <<"#">> \o item.heading
      [] item.type = "block" -> item.note.title \o <<"#", "^">> \o templateOf(item.blockId)

(* a display text that falls back to the whole raw query *)
getDisplayTextRawFallback(rawQuery) ==
    LET parsed == parseQuery(rawQuery)
    IN  IF parsed.displayPart # <<>> /\ Len(trim(parsed.displayPart[1])) > 0
        THEN trim(parsed.displayPart[1])
        ELSE IF Len(trim(parsed.notePart)) > 0 THEN trim(parsed.notePart)
        ELSE trim(rawQuery)

getDisplayText(rawQuery) ==
    LET parsed == parseQuery(rawQuery)
    IN  IF parsed.displayPart # <<>> /\ Len(trim(parsed.displayPart[1])) > 0
        THEN trim(parsed.displayPart[1])
        ELSE trim(parsed.notePart)

(* a buildLink that writes the pipe whatever the display text *)
buildLinkAlwaysPiped(item, rawQuery, asTyped, explicitDisplay) ==
    IF asTyped
    THEN LET raw == trim(rawQuery)
         IN  <<"[", "[">> \o raw \o <<"|">> \o raw \o <<"]", "]">>
    ELSE LET display == IF explicitDisplay # <<>> THEN explicitDisplay[1]
                        ELSE getDisplayText(rawQuery)
             target == getLinkTarget(item)
         IN  <<"[", "[">> \o target \o <<"|">> \o display \o <<"]", "]">>

buildLink(item, rawQuery, asTyped, explicitDisplay) ==
    IF asTyped
    THEN LET raw == trim(rawQuery)
         IN  <<"[", "[">> \o raw \o <<"|">> \o raw \o <<"]", "]">>
    ELSE LET display == IF explicitDisplay # <<>> THEN explicitDisplay[1]
                        ELSE getDisplayText(rawQuery)
             target == getLinkTarget(item)
         IN  IF Len(display) = 0
             THEN <<"[", "[">> \o target \o <<"]", "]">>
             ELSE <<"[", "[">> \o target \o <<"|">> \o display \o <<"]", "]">>

(* The state machine: buildLink is called once on a suggestion, a raw      *)
(* query and an optional explicit display text                             *)
LinkChars == {"n", " ", "|", "#", "^"}

LinkQueries == SeqsUpTo(LinkChars, MaxLinkQuery)

MyNote == NoteInfo(<<"M", ".", "m", "d">>, <<"M">>, <<>>)

LinkItems ==
    { noteSuggestion(MyNote, <<>>),
      headingSuggestion(MyNote, <<"H">>, 1),
      blockSuggestion(MyNote, <<<<"a", "1">>>>, <<"n">>, <<>>),
      blockSuggestion(MyNote, <<>>, <<"n">>, <<[line |-> 0]>>) }

ExplicitDisplays == {<<>>, << <<>> >>, << <<" ", "d">> >>}

InitLink ==
    /\ NoSearch /\ NoStem /\ NoRecent /\ NoParse /\ NoSuggest /\ NoChoose /\ NoSession
    /\ NoInline
    /\ stemmers = <<>>
    /\ linkArgs \in [name : {"buildLink"}, item : LinkItems, rawQuery : LinkQueries,
                     asTyped : BOOLEAN, explicitDisplay : ExplicitDisplays]
    /\ link = <<>>

BuildLink ==
    /\ linkArgs.name = "buildLink"
    /\ link = <<>>
    /\ link' = <<buildLink(linkArgs.item, linkArgs.rawQuery, linkArgs.asTyped,
                           linkArgs.explicitDisplay)>>
    /\ UNCHANGED <<searchVars, stemVars, recentVars, parseVars, linkArgs, suggestVars,
                   chooseVars, sessionVars, inlineVars>>

NextLink == BuildLink

SpecLink == InitLink /\ [][NextLink]_vars

(* Vocabulary of the link properties *)
Built == link # <<>>

(* the text between its first and its last character that is not a space *)
Trimmed(text) ==
    LET inked == {i \in 1..Len(text) : text[i] # " "}
    IN  IF inked = {} THEN <<>>
        ELSE SubSeq(text, First(inked), CHOOSE i \in inked : \A j \in inked : j <= i)

QueryPipes == Places(linkArgs.rawQuery, {"|"})

AfterFirstPipe ==
    IF QueryPipes = {} THEN <<>>
    ELSE SubSeq(linkArgs.rawQuery, First(QueryPipes) + 1, Len(linkArgs.rawQuery))

QueryDelimiters == Places(linkArgs.rawQuery, {"|", "#", "^"})

NotePartOfQuery ==
    IF QueryDelimiters = {} THEN linkArgs.rawQuery
    ELSE SubSeq(linkArgs.rawQuery, 1, First(QueryDelimiters) - 1)

ChosenDisplay ==
    IF linkArgs.explicitDisplay # <<>> THEN linkArgs.explicitDisplay[1]
    ELSE IF Trimmed(AfterFirstPipe) # <<>> THEN Trimmed(AfterFirstPipe)
    ELSE Trimmed(NotePartOfQuery)

(* the suggestion names what it links to: a block has its id *)
Targeted == linkArgs.item.type = "block" => linkArgs.item.blockId # <<>>

LinkTarget ==
    LET item == linkArgs.item
    IN  IF item.type = "note" THEN item.note.title
        ELSE IF item.type = "heading" THEN item.note.title \o <<"#">> \o item.heading
        ELSE item.note.title \o <<"#", "^">> \o item.blockId[1]

Bracketed(text) == <<"[", "[">> \o text \o <<"]", "]">>

BareSubLink ==
    /\ Built
    /\ ~linkArgs.asTyped
    /\ Targeted
    /\ linkArgs.explicitDisplay = <<>>
    /\ Trimmed(NotePartOfQuery) = <<>>
    /\ Trimmed(AfterFirstPipe) = <<>>

----------------------------------------------------------------------------
(* LinkSuggestCore: suggestions for a query, and the blocks of a note *)

MaxLines == 3

BLOCK_TEXT_MAX_LENGTH == 120

(* String(i) of a whole number and parseInt(text, 10) of its digits *)
Digits == <<"0", "1", "2", "3", "4", "5", "6", "7", "8", "9">>

RECURSIVE String(_)
String(i) ==
    IF i < 10 THEN <<Digits[i + 1]>>
    ELSE String(i \div 10) \o <<Digits[(i % 10) + 1]>>

RECURSIVE parseIntFrom(_, _, _)
parseIntFrom(text, i, value) ==
    IF i > Len(text) THEN value
    ELSE parseIntFrom(text, i + 1,
                      10 * value + (CHOOSE d \in 0..9 : Digits[d + 1] = text[i]))

parseInt(text) == parseIntFrom(text, 1, 0)

(* const name = value: the value of a local is computed once, where it is  *)
(* declared, and the statements after it see that value                    *)
const(value, rest(_)) == CHOOSE out \in {rest(v) : v \in {value}} : TRUE

(* vault.getAbstractFileByPath: no or one file *)
getAbstractFileByPath(files, path) ==
    LET found == {f \in 1..Len(files) : files[f].path = path}
    IN  IF found = {} THEN <<>> ELSE <<files[CHOOSE f \in found : TRUE]>>

(* collectNotes: the notes of the files of the vault *)
collectNotes(files) ==
    [f \in 1..Len(files) |-> NoteInfo(files[f].path, files[f].title, <<>>)] \o <<>>

(* searchTexts: the positions, from 0, of the texts a query matches, in    *)
(* the order of relevance                                                  *)
searchTexts(list, texts, queryText) ==
    const([i \in 1..Len(texts) |-> NoteInfo(String(i - 1), texts[i], <<>>)] \o <<>>,
          LAMBDA asNotes :
    const(search(list, asNotes, queryText).results, LAMBDA found :
          [r \in 1..Len(found) |-> parseInt(asNotes[found[r].note].path)] \o <<>>))

getNoteSuggestions(list, files, ledger, notePart) ==
    const(collectNotes(files), LAMBDA corpus :
    const(search(list, corpus, notePart).results, LAMBDA found :
    const([r \in 1..Len(found) |->
              [title |-> corpus[found[r].note].title,
               item |-> noteSuggestion(corpus[found[r].note], found[r].matchedAlias)]]
          \o <<>>, LAMBDA suggestions :
    const(boostRecent(ledger, suggestions, <<MAX_BOOST_COUNT>>).value, LAMBDA boosted :
          [r \in 1..Len(boosted) |-> boosted[r].item] \o <<>>))))

(* the loop of getRecentSuggestions over the sorted entries *)
RECURSIVE recentSuggestionsFrom(_, _, _, _)
recentSuggestionsFrom(sorted, corpus, k, suggestions) ==
    IF k > Len(sorted) THEN suggestions
    ELSE LET named == {n \in 1..Len(corpus) : corpus[n].title = sorted[k].title}
             pushed == IF named = {} THEN suggestions
                       ELSE Append(suggestions,
                                   noteSuggestion(corpus[CHOOSE n \in named :
                                                      \A other \in named : other <= n], <<>>))
         IN  IF Len(pushed) >= MAX_BOOST_COUNT THEN pushed
             ELSE recentSuggestionsFrom(sorted, corpus, k + 1, pushed)

getRecentSuggestions(files, ledger) ==
    recentSuggestionsFrom(sortByTimestamp(objectEntries(toJSON(ledger))),
                          collectNotes(files), 1, <<>>)

filterHeadings(list, note, headings, queryText) ==
    IF Len(trim(queryText)) = 0
    THEN [h \in 1..Len(headings) |->
             headingSuggestion(note, headings[h].heading, headings[h].level)] \o <<>>
    ELSE LET matched == searchTexts(list, [h \in 1..Len(headings) |-> headings[h].heading] \o <<>>,
                                    queryText)
         IN  [m \in 1..Len(matched) |->
                 headingSuggestion(note, headings[matched[m] + 1].heading,
                                   headings[matched[m] + 1].level)] \o <<>>

(* content.split("\n") and lines.join("\n"); the line break is the         *)
(* character "\n"                                                          *)
RECURSIVE splitLinesFrom(_, _, _, _)
splitLinesFrom(content, i, cur, lines) ==
    IF i > Len(content) THEN Append(lines, cur)
    ELSE IF content[i] = "\n" THEN splitLinesFrom(content, i + 1, <<>>, Append(lines, cur))
    ELSE splitLinesFrom(content, i + 1, Append(cur, content[i]), lines)

splitLines(content) == splitLinesFrom(content, 1, <<>>, <<>>)

RECURSIVE joinLines(_)
joinLines(lines) ==
    IF Len(lines) = 0 THEN <<>>
    ELSE IF Len(lines) = 1 THEN lines[1]
    ELSE lines[1] \o <<"\n">> \o joinLines(Tail(lines))

(* lines[n], n from 0: no value outside the file *)
lineAt(lines, n) == IF n >= 0 /\ n < Len(lines) THEN <<lines[n + 1]>> ELSE <<>>

(* preview.replace(/\s*\^id$/, ""): the id marker at the end of the text   *)
(* and the white space before it are dropped                               *)
replaceIdMarker(preview, id) ==
    IF endsWith(preview, <<"^">> \o id)
    THEN trimEnd(SubSeq(preview, 1, Len(preview) - Len(id) - 1))
    ELSE preview

(* the loop of buildBlockSuggestions over the sections of the note *)
RECURSIVE candidatesFrom(_, _, _, _)
candidatesFrom(lines, sections, k, candidates) ==
    IF k > Len(sections) THEN candidates
    ELSE LET section == sections[k]
             firstLine == lineAt(lines, section.position.start.line)
         IN  IF firstLine = <<>> \/ Len(trim(firstLine[1])) = 0
             THEN candidatesFrom(lines, sections, k + 1, candidates)
             ELSE IF section.type = "yaml"
             THEN candidatesFrom(lines, sections, k + 1, candidates)
             ELSE LET existingId == section.id
                      trimmed == trim(firstLine[1])
                      unmarked == IF existingId # <<>> /\ existingId[1] # <<>>
                                  THEN replaceIdMarker(trimmed, existingId[1])
                                  ELSE trimmed
                      preview == substring(unmarked, 0,
                                           IF Len(unmarked) < BLOCK_TEXT_MAX_LENGTH
                                           THEN Len(unmarked) ELSE BLOCK_TEXT_MAX_LENGTH)
                  IN  candidatesFrom(lines, sections, k + 1,
                                     Append(candidates,
                                            [preview |-> preview, existingId |-> existingId,
                                             endLine |-> section.position.end.line]))

hasId(c) == c.existingId # <<>> /\ c.existingId[1] # <<>>

buildBlockSuggestions(list, note, file, cache, queryText) ==
    LET sections == cache.sections
    IN  IF Len(sections) = 0 THEN <<>>
        ELSE const(splitLines(file.content), LAMBDA lines :
             const(candidatesFrom(lines, sections, 1, <<>>), LAMBDA candidates :
             const(IF Len(trim(queryText)) = 0
                   THEN [i \in 1..Len(candidates) |-> i - 1] \o <<>>
                   ELSE const([i \in 1..Len(candidates) |->
                                  IF hasId(candidates[i])
                                  THEN candidates[i].preview \o <<" ">>
                                           \o candidates[i].existingId[1]
                                  ELSE candidates[i].preview] \o <<>>,
                              LAMBDA texts : searchTexts(list, texts, queryText)),
                   LAMBDA orderedIndices :
                   [o \in 1..Len(orderedIndices) |->
                       LET c == candidates[orderedIndices[o] + 1]
                       IN  IF hasId(c)
                           THEN blockSuggestion(note, c.existingId, c.preview, <<>>)
                           ELSE blockSuggestion(note, <<>>, c.preview,
                                                <<[line |-> c.endLine]>>)]
                   \o <<>>)))

getSubLinkSuggestions(list, files, ledger, parsed, selectedNote) ==
    const(IF Len(trim(parsed.notePart)) > 0
          THEN getNoteSuggestions(list, files, ledger, parsed.notePart)
          ELSE getRecentSuggestions(files, ledger), LAMBDA noteResults :
    const(IF selectedNote # <<>> THEN selectedNote
          ELSE IF Len(noteResults) > 0 THEN <<noteResults[1].note>> ELSE <<>>,
          LAMBDA bestNote :
          IF bestNote = <<>> THEN <<>>
          ELSE const(getAbstractFileByPath(files, bestNote[1].path), LAMBDA file :
                     IF file = <<>> THEN noteResults
                     ELSE IF file[1].cache = <<>> THEN noteResults
                     ELSE IF parsed.headingPart # <<>>
                     THEN filterHeadings(list, bestNote[1], file[1].cache[1].headings,
                                         parsed.headingPart[1])
                     ELSE IF parsed.blockPart # <<>>
                     THEN buildBlockSuggestions(list, bestNote[1], file[1],
                                                file[1].cache[1], parsed.blockPart[1])
                     ELSE noteResults)))

getSuggestions(list, files, ledger, queryText, selectedNote) ==
    IF Len(trim(queryText)) = 0 THEN getRecentSuggestions(files, ledger)
    ELSE const(parseQuery(queryText), LAMBDA parsed :
               IF parsed.headingPart # <<>> \/ parsed.blockPart # <<>>
               THEN getSubLinkSuggestions(list, files, ledger, parsed, selectedNote)
               ELSE getNoteSuggestions(list, files, ledger, parsed.notePart))

(* The metadata cache of a file, as the vault derives it from the lines:   *)
(* a blank line ends a section; a line that starts with "- " starts a list *)
(* item and, after a paragraph or a blank line, a list section; any other  *)
(* line continues the item or the paragraph before it, or starts a         *)
(* paragraph section.  A paragraph or an item whose last line ends with a  *)
(* block marker has its id.                                                *)
isListLine(line) == startsWith(line, <<"-", " ">>)

isBlank(line) == Len(trim(line)) = 0

KnownId == <<"b", "e", "d">>

idOfLine(line) == IF endsWith(line, <<" ", "^">> \o KnownId) THEN <<KnownId>> ELSE <<>>

sectionPosition(first, last) == [start |-> [line |-> first], end |-> [line |-> last]]

(* the last line, from 0, of the run of lines that starts at line i and    *)
(* goes on while the next line is not blank and, for a paragraph or one    *)
(* list item, does not start a list item                                   *)
RECURSIVE runEnd(_, _, _)
runEnd(lines, i, wholeList) ==
    IF /\ i + 1 < Len(lines)
       /\ ~isBlank(lines[i + 2])
       /\ (wholeList \/ ~isListLine(lines[i + 2]))
    THEN runEnd(lines, i + 1, wholeList)
    ELSE i

RECURSIVE sectionsFrom(_, _, _)
sectionsFrom(lines, i, sections) ==
    IF i >= Len(lines) THEN sections
    ELSE IF isBlank(lines[i + 1]) THEN sectionsFrom(lines, i + 1, sections)
    ELSE IF isListLine(lines[i + 1])
    THEN LET last == runEnd(lines, i, TRUE)
         IN  sectionsFrom(lines, last + 1,
                          Append(sections, [type |-> "list", id |-> <<>>,
                                            position |-> sectionPosition(i, last)]))
    ELSE LET last == runEnd(lines, i, FALSE)
         IN  sectionsFrom(lines, last + 1,
                          Append(sections, [type |-> "paragraph",
                                            id |-> idOfLine(lines[last + 1]),
                                            position |-> sectionPosition(i, last)]))

RECURSIVE listItemsFrom(_, _, _)
listItemsFrom(lines, i, listItems) ==
    IF i >= Len(lines) THEN listItems
    ELSE IF ~isListLine(lines[i + 1]) THEN listItemsFrom(lines, i + 1, listItems)
    ELSE LET last == runEnd(lines, i, FALSE)
         IN  listItemsFrom(lines, last + 1,
                           Append(listItems, [id |-> idOfLine(lines[last + 1]),
                                              position |-> sectionPosition(i, last)]))

getFileCache(lines) ==
    LET sections == sectionsFrom(lines, 0, <<>>)
        listItems == listItemsFrom(lines, 0, <<>>)
    IN  [sections |-> sections,
         listItems |-> listItems,
         headings |-> <<>>,
         blocks |-> {sections[k].id[1] : k \in {j \in 1..Len(sections) : sections[j].id # <<>>}}
                    \cup {listItems[k].id[1] :
                              k \in {j \in 1..Len(listItems) : listItems[j].id # <<>>}}]

(* The state machine: getSuggestions is called once on a vault of no or    *)
(* one note, with the stemmers of the plugin and an empty ledger           *)
LineTexts ==
    { <<>>, red, red \o <<" ", "^">> \o KnownId, dash \o sp \o box, dash \o sp \o red }

BoxFile(lines) ==
    [path |-> Box \o <<".", "m", "d">>, title |-> Box, content |-> joinLines(lines),
     cache |-> <<getFileCache(lines)>>]

Vaults ==
    {<<>>} \cup {<<BoxFile(lines)>> : lines \in SeqsUpTo(LineTexts, MaxLines) \ {<<>>}}

caret == <<"^">>

SuggestQueries ==
    { <<>>, box, box \o <<"#">>, caret \o bo,
      box \o caret, box \o caret \o sp, box \o caret \o bo, box \o caret \o red }

SelectedNotes == {<<>>, <<NoteInfo(Box \o <<".", "m", "d">>, Box, <<>>)>>}

InitSuggest ==
    /\ NoSearch /\ NoStem /\ NoRecent /\ NoParse /\ NoLink /\ NoChoose /\ NoSession
    /\ NoInline
    /\ stemmers = <<"russian", "english">>
    /\ vault \in Vaults
    /\ suggest \in [name : {"new"}, query : SuggestQueries, selectedNote : SelectedNotes]

GetSuggestions ==
    /\ suggest.name = "new"
    /\ suggest' = [name |-> "getSuggestions", query |-> suggest.query,
                   selectedNote |-> suggest.selectedNote,
                   out |-> getSuggestions(stemmers, vault, entries, suggest.query,
                                          suggest.selectedNote)]
    /\ UNCHANGED <<searchVars, stemVars, recentVars, parseVars, linkVars, vault,
                   chooseVars, sessionVars, inlineVars>>

NextSuggest == GetSuggestions

SpecSuggest == InitSuggest /\ [][NextSuggest]_vars

(* Vocabulary of the block suggestions *)
Suggested == suggest.name = "getSuggestions"

BlockFilter == parseQuery(suggest.query).blockPart

(* a block query whose note is resolved: the note is the selected one or   *)
(* the note part of the query finds it                                     *)
BlockQueried ==
    /\ Suggested
    /\ vault # <<>>
    /\ BlockFilter # <<>>
    /\ \/ suggest.selectedNote # <<>>
       \/ search(stemmers, collectNotes(vault), parseQuery(suggest.query).notePart).results
              # <<>>

ListItemTexts ==
    {Trimmed(splitLines(vault[1].content)[vault[1].cache[1].listItems[k].position.start.line + 1]) :
        k \in 1..Len(vault[1].cache[1].listItems)}

Offered(text) ==
    \E s \in 1..Len(suggest.out) :
        suggest.out[s].type = "block" /\ suggest.out[s].blockText = text

(* the filter finds the text when it is searched alone *)
MatchesFilter(text) ==
    search(stemmers, <<NoteInfo(<<"0">>, text, <<>>)>>, BlockFilter[1]).results # <<>>

(* C23 as stated: a block query offers every list item of the resolved     *)
(* note as a block of its own, a filter that is not empty keeps exactly    *)
(* the list items it matches, and every suggestion is a block.             *)
C23_EveryListItem ==
    BlockQueried =>
        /\ \A s \in 1..Len(suggest.out) : suggest.out[s].type = "block"
        /\ \A text \in ListItemTexts :
              IF Trimmed(BlockFilter[1]) = <<>> THEN Offered(text)
              ELSE Offered(text) <=> MatchesFilter(text)

----------------------------------------------------------------------------
(* NaturalLinkModal.onChooseSuggestion: prepareBlockId, buildLink, the     *)
(* insertion into the editor, the recording of the selection and           *)
(* writeBlockIdIfNeeded, whose vault.process runs after the handler        *)

BLOCK_ID_LENGTH == 1

MaxCollisions == 1

BLOCK_ID_CHARS ==
    <<"0", "1", "2", "3", "4", "5", "6", "7", "8", "9", "a", "b", "c", "d", "e", "f">>

(* a value that counts as true: a string that is present and not empty *)
truthy(optional) == optional # <<>> /\ optional[1] # <<>>

collectAllBlockIds(files) ==
    UNION {IF files[f].cache # <<>> THEN files[f].cache[1].blocks ELSE {} :
              f \in 1..Len(files)}

(* Math.floor(Math.random() * BLOCK_ID_CHARS.length): any index *)
RandomPicks == [1..BLOCK_ID_LENGTH -> 0..(Len(BLOCK_ID_CHARS) - 1)]

(* one pass of the loop of generateUniqueBlockId: the id of the picks *)
randomId(picks) == [i \in 1..BLOCK_ID_LENGTH |-> BLOCK_ID_CHARS[picks[i] + 1]] \o <<>>

(* a Set that never reports a member *)
setHasNever(set, id) == FALSE

setHas(set, id) == id \in set

(* a write that always goes to the first line *)
withBlockIdFirstLine(content, lineNum, id) ==
    LET lines == splitLines(content)
    IN  joinLines([n \in 1..Len(lines) |->
                      IF n = 1 THEN lines[n] \o <<" ", "^">> \o id ELSE lines[n]] \o <<>>)

(* the callback of vault.process: the content with the block id written at *)
(* the end of a line                                                       *)
withBlockId(content, lineNum, id) ==
    LET lines == splitLines(content)
    IN  joinLines(IF lineNum >= 0 /\ lineNum < Len(lines)
                  THEN [n \in 1..Len(lines) |->
                           IF n = lineNum + 1 THEN lines[n] \o <<" ", "^">> \o id
                           ELSE lines[n]] \o <<>>
                  ELSE lines)

(* Editor.replaceSelection with the cursor at the end of the text *)
replaceSelection(text, inserted) == text \o inserted

getNoteTitle(item) == item.note.title

(* writeBlockIdIfNeeded up to vault.process: whether the file is processed *)
writesBlockId(files, item) ==
    /\ ~(item.type # "block" \/ item.needsWrite = <<>> \/ ~truthy(item.blockId))
    /\ getAbstractFileByPath(files, item.note.path) # <<>>

(* The state machine *)
idOf(ch) == [i \in 1..BLOCK_ID_LENGTH |-> ch] \o <<>>

noCache == [sections |-> <<>>, listItems |-> <<>>, headings |-> <<>>, blocks |-> {}]

ChooseFile(note, content, blocks) ==
    [path |-> note.path, title |-> note.title, content |-> content,
     cache |-> <<[noCache EXCEPT !.blocks = blocks]>>]

OtherNote == NoteInfo(<<"N", ".", "m", "d">>, <<"N">>, <<>>)

TwoLines == <<"n", "\n", "-", " ", "n">>

ChooseVaults ==
    { <<ChooseFile(MyNote, TwoLines, {})>>,
      <<ChooseFile(MyNote, TwoLines, {}), ChooseFile(OtherNote, <<"n">>, {idOf("a")})>>,
      <<ChooseFile(OtherNote, <<>>, {<<"i", "n", "t", "r", "o">>}),
        ChooseFile(MyNote, TwoLines, {idOf("f")})>> }

ChooseItems ==
    { noteSuggestion(MyNote, <<>>),
      headingSuggestion(MyNote, <<"H">>, 1),
      blockSuggestion(MyNote, <<idOf("f")>>, <<"n">>, <<>>),
      blockSuggestion(MyNote, <<>>, <<"n">>, <<>>),
      blockSuggestion(MyNote, <<idOf("f")>>, <<"n">>, <<[line |-> 0]>>),
      blockSuggestion(MyNote, << <<>> >>, <<"n">>, <<[line |-> 0]>>) }
        \cup {blockSuggestion(MyNote, <<>>, <<"n">>, <<[line |-> n]>>) : n \in {-1, 1, 2}}

ChooseQueries == {<<"n", "^">>, <<"^", "n">>}

ChooseLedgers == {<<>>, <<Entry(<<"N">>, 1), Entry(<<"O">>, 2)>>}

InitChoose ==
    /\ NoSearch /\ NoStem /\ NoParse /\ NoLink /\ NoSession /\ NoInline
    /\ stemmers = <<>>
    /\ suggest = [name |-> "none"]
    /\ vault \in ChooseVaults
    /\ entries \in ChooseLedgers
    /\ call = [name |-> "none"]
    /\ \E item \in ChooseItems, lastQuery \in ChooseQueries :
          /\ choice = [name |-> "onChooseSuggestion", item |-> item, query |-> lastQuery,
                       vault |-> vault]
          /\ chosen = item
    /\ pc = "prepareBlockId"
    /\ allIds = {}
    /\ draws = <<>>
    /\ editor = <<>>

PrepareBlockId ==
    /\ pc = "prepareBlockId"
    /\ IF chosen.type # "block" \/ truthy(chosen.blockId) \/ chosen.needsWrite = <<>>
       THEN pc' = "buildLink" /\ UNCHANGED allIds
       ELSE pc' = "generateUniqueBlockId" /\ allIds' = collectAllBlockIds(vault)
    /\ UNCHANGED <<searchVars, stemVars, recentVars, parseVars, linkVars, suggestVars,
                   sessionVars, inlineVars, choice, chosen, draws, editor>>

(* one pass of the do-while loop *)
GenerateUniqueBlockId(picks) ==
    /\ pc = "generateUniqueBlockId"
    /\ \E id \in {randomId(picks)} :
          /\ setHas(allIds, id) => Len(draws) < MaxCollisions
          /\ draws' = Append(draws, id)
          /\ IF setHas(allIds, id)
             THEN UNCHANGED <<pc, allIds, chosen>>
             ELSE /\ allIds' = allIds \cup {id}
                  /\ chosen' = [chosen EXCEPT !.blockId = <<id>>]
                  /\ pc' = "buildLink"
    /\ UNCHANGED <<searchVars, stemVars, recentVars, parseVars, linkVars, suggestVars,
                   sessionVars, inlineVars, choice, editor>>

(* buildLink, replaceSelection, onNoteSelected and writeBlockIdIfNeeded up *)
(* to its await                                                            *)
InsertLink(now) ==
    /\ pc = "buildLink"
    /\ editor' = replaceSelection(editor, buildLink(chosen, choice.query, FALSE, <<>>))
    /\ entries' = record(entries, getNoteTitle(chosen), now)
    /\ call' = [name |-> "record", title |-> getNoteTitle(chosen), now |-> now,
                before |-> entries]
    /\ pc' = IF writesBlockId(vault, chosen) THEN "process" ELSE "done"
    /\ UNCHANGED <<searchVars, stemVars, parseVars, linkVars, suggestVars, sessionVars, inlineVars,
                   choice, chosen, allIds, draws>>

(* the callback of vault.process *)
ProcessFile ==
    /\ pc = "process"
    /\ vault' = [f \in 1..Len(vault) |->
                    IF vault[f].path = chosen.note.path
                    THEN [vault[f] EXCEPT
                             !.content = withBlockId(@, chosen.needsWrite[1].line,
                                                     chosen.blockId[1])]
                    ELSE vault[f]] \o <<>>
    /\ pc' = "done"
    /\ UNCHANGED <<searchVars, stemVars, recentVars, parseVars, linkVars, suggest,
                   sessionVars, inlineVars, choice, chosen, allIds, draws, editor>>

NextChoose ==
    \/ PrepareBlockId
    \/ \E picks \in RandomPicks : GenerateUniqueBlockId(picks)
    \/ \E now \in Clock : InsertLink(now)
    \/ ProcessFile

SpecChoose == InitChoose /\ [][NextChoose]_vars

(* the handler and the write it starts run to their end: the handler is    *)
(* not interrupted and the vault settles the promise of process.  The runs *)
(* are those of a vault of two notes and a ledger at capacity              *)
InitChooseFair ==
    /\ InitChoose
    /\ Len(vault) = 2
    /\ entries # <<>>

SpecChooseFair == InitChooseFair /\ [][NextChoose]_vars /\ WF_vars(NextChoose)

(* Vocabulary of the handler properties *)
HexChars ==
    {"0", "1", "2", "3", "4", "5", "6", "7", "8", "9", "a", "b", "c", "d", "e", "f"}

(* a block suggestion that is to be written and has no id *)
IdLess ==
    /\ choice.item.type = "block"
    /\ choice.item.needsWrite # <<>>
    /\ (choice.item.blockId = <<>> \/ choice.item.blockId[1] = <<>>)

(* the block ids of every file of the vault when the handler is called *)
VaultIds ==
    UNION {choice.vault[f].cache[1].blocks : f \in 1..Len(choice.vault)}

Prepared == pc \in {"buildLink", "process", "done"}

(* C24: after prepareBlockId, a block suggestion with needsWrite and no id *)
(* has an id of BLOCK_ID_LENGTH characters (6 in the source) out of        *)
(* 0-9a-f that no file of the vault holds, every id drawn before it was    *)
(* held by a file, and nothing else of the suggestion has changed; any     *)
(* other suggestion is unchanged and no id was drawn.                      *)
C24_UniqueBlockId ==
    Prepared =>
        IF IdLess
        THEN /\ chosen.blockId # <<>>
             /\ Len(chosen.blockId[1]) = BLOCK_ID_LENGTH
             /\ \A i \in 1..Len(chosen.blockId[1]) : chosen.blockId[1][i] \in HexChars
             /\ chosen.blockId[1] \notin VaultIds
             /\ chosen = [choice.item EXCEPT !.blockId = chosen.blockId]
             /\ draws # <<>>
             /\ draws[Len(draws)] = chosen.blockId[1]
             /\ \A d \in 1..(Len(draws) - 1) : draws[d] \in VaultIds
        ELSE chosen = choice.item /\ draws = <<>>

(* the first draw hit an id of another file than the note's, and the       *)
(* second draw became the id                                               *)
C24_Witness ==
    /\ Prepared
    /\ IdLess
    /\ Len(draws) = 2
    /\ \E f \in 1..Len(choice.vault) :
          /\ choice.vault[f].path # choice.item.note.path
          /\ draws[1] \in choice.vault[f].cache[1].blocks
    /\ chosen.blockId = <<draws[2]>>

TheFile(files) == files[CHOOSE f \in 1..Len(files) : files[f].path = choice.item.note.path]

OtherFiles(files) == {files[f] : f \in {g \in 1..Len(files) : files[g].path # choice.item.note.path}}

(* the lines of the note's file when the handler is called *)
LinesBefore == splitLines(TheFile(choice.vault).content)

WriteLine == choice.item.needsWrite[1].line

(* the editor holds one link, to the block id of the note *)
LinkedTo(id) ==
    LET opening == <<"[", "[">> \o choice.item.note.title \o <<"#", "^">> \o id
    IN  /\ startsWith(editor, opening)
        /\ editor[Len(opening) + 1] \in {"|", "]"}
        /\ endsWith(editor, <<"]", "]">>)
        /\ Cardinality(Places(editor, {"["})) = 2

(* the handler has inserted the link and recorded the selection *)
Inserted == pc \in {"process", "done"}

C26_Steps ==
    /\ (Inserted /\ IdLess) =>
          /\ draws # <<>>
          /\ chosen.blockId = <<draws[Len(draws)]>>
          /\ LinkedTo(draws[Len(draws)])
          /\ call.name = "record"
          /\ call.title = choice.item.note.title
          /\ mapHas(entries, choice.item.note.title)
                \/ Len(call.before) >= MAX_RECENT_COUNT
    /\ (pc # "done") => vault = choice.vault
    /\ (pc = "done" /\ IdLess) =>
          /\ OtherFiles(vault) = OtherFiles(choice.vault)
          /\ splitLines(TheFile(vault).content) =
                IF WriteLine >= 0 /\ WriteLine < Len(LinesBefore)
                THEN [n \in 1..Len(LinesBefore) |->
                         IF n = WriteLine + 1
                         THEN LinesBefore[n] \o <<" ", "^">> \o draws[Len(draws)]
                         ELSE LinesBefore[n]]
                ELSE LinesBefore
    /\ choice.item.needsWrite = <<>> => vault = choice.vault

----------------------------------------------------------------------------
(* SuggestSession: the note suggestions last shown and the note resolved   *)
(* from them for a sub-link query                                          *)

MaxSuggestions == 2

MaxResolveCalls == 4

(* getResolvedNote as a function of the fields and of the value the        *)
(* callback returns when it is called: whether it was called, and the      *)
(* field resolvedNote afterwards, which is also the value returned         *)
resolve(suggestions, resolved, idx) ==
    IF resolved = <<>> /\ Len(suggestions) > 0
    THEN [read |-> TRUE,
          resolvedNote |-> IF idx >= 0 /\ idx < Len(suggestions)
                           THEN <<suggestions[idx + 1].note>> ELSE resolved]
    ELSE [read |-> FALSE, resolvedNote |-> resolved]

(* The state machine: the modal updates the session on a note query and    *)
(* asks it for the resolved note on a sub-link query                       *)
SessionSuggestions ==
    SeqsUpTo({noteSuggestion(MyNote, <<>>), noteSuggestion(OtherNote, <<>>)}, MaxSuggestions)

(* what the selected-index callback may return *)
SelectedIndices == -1..MaxSuggestions

InitSession ==
    /\ NoSearch /\ NoStem /\ NoRecent /\ NoParse /\ NoLink /\ NoSuggest /\ NoChoose
    /\ NoInline
    /\ stemmers = <<>>
    /\ lastNoteSuggestions = <<>>
    /\ resolvedNote = <<>>
    /\ indexReads = 0
    /\ returned = <<>>

UpdateNoteSuggestions(suggestions) ==
    /\ resolvedNote' = <<>>
    /\ lastNoteSuggestions' = suggestions
    /\ indexReads' = 0
    /\ returned' = <<>>
    /\ UNCHANGED <<searchVars, stemVars, recentVars, parseVars, linkVars, suggestVars,
                   chooseVars, inlineVars>>

GetResolvedNote(idx) ==
    /\ Len(returned) < MaxResolveCalls
    /\ \E out \in {resolve(lastNoteSuggestions, resolvedNote, idx)} :
          /\ resolvedNote' = out.resolvedNote
          /\ indexReads' = IF out.read THEN indexReads + 1 ELSE indexReads
          /\ returned' = Append(returned, out.resolvedNote)
    /\ UNCHANGED <<searchVars, stemVars, recentVars, parseVars, linkVars, suggestVars,
                   chooseVars, inlineVars, lastNoteSuggestions>>

NextSession ==
    \/ \E suggestions \in SessionSuggestions : UpdateNoteSuggestions(suggestions)
    \/ \E idx \in SelectedIndices : GetResolvedNote(idx)

SpecSession == InitSession /\ [][NextSession]_vars

(* C25 as stated: between two updateNoteSuggestions calls the              *)
(* selected-index callback is called at most once and every                *)
(* getResolvedNote call returns the same note, and after                   *)
(* updateNoteSuggestions no note is resolved.                              *)
C25_ResolvedOnce ==
    /\ indexReads <= 1
    /\ \A a, b \in 1..Len(returned) : returned[a] = returned[b]
    /\ returned = <<>> => resolvedNote = <<>>

----------------------------------------------------------------------------
(* NaturalLinkSuggest: the inline suggest with its cached index *)

MaxTriggerLine == 4

(* whether the search string stands in the text at index i, from 0 *)
matchesAt(text, pattern, i) ==
    /\ i + Len(pattern) <= Len(text)
    /\ SubSeq(text, i + 1, i + Len(pattern)) = pattern

(* String.prototype.lastIndexOf, indexOf with a start and includes, for a  *)
(* search string                                                           *)
lastIndexOfText(text, pattern) ==
    LET found == {i \in 0..Len(text) : matchesAt(text, pattern, i)}
    IN  IF found = {} THEN -1 ELSE CHOOSE i \in found : \A j \in found : i >= j

indexOfTextFrom(text, pattern, from) ==
    LET found == {i \in from..Len(text) : matchesAt(text, pattern, i)}
    IN  IF found = {} THEN -1 ELSE CHOOSE i \in found : \A j \in found : i <= j

includes(text, pattern) == \E i \in 0..Len(text) : matchesAt(text, pattern, i)

open2 == <<"[", "[">>

close2 == <<"]", "]">>

(* a value of the frontmatter: a string, a number or an array of values *)
Raw(kind, value) == [kind |-> kind, value |-> value]

(* a file of the vault; aliases is the frontmatter value when there is one *)
File(basename, extension, aliases) ==
    [path |-> basename \o <<".">> \o extension, basename |-> basename,
     name |-> basename \o <<".">> \o extension, extension |-> extension,
     aliases |-> aliases]

getMarkdownFiles(files) == SelectSeq(files, LAMBDA f : f.extension = <<"m", "d">>)

(* the aliases collectNotes reads from the frontmatter of a file *)
aliasesOf(raw) ==
    IF raw = <<>> THEN <<>>
    ELSE IF raw[1].kind = "array"
    THEN LET strings == SelectSeq(raw[1].value, LAMBDA a : a.kind = "string")
         IN  [i \in 1..Len(strings) |-> strings[i].value] \o <<>>
    ELSE IF raw[1].kind = "string" THEN <<raw[1].value>>
    ELSE <<>>

(* collectNotes of the plugin *)
pluginCollectNotes(files) ==
    LET md == getMarkdownFiles(files)
    IN  [f \in 1..Len(md) |->
            NoteInfo(md[f].path, md[f].basename, aliasesOf(md[f].aliases))] \o <<>>

(* the link texts of the unresolved links, source by source *)
RECURSIVE flatten(_)
flatten(lists) == IF lists = <<>> THEN <<>> ELSE Head(lists) \o flatten(Tail(lists))

RECURSIVE unresolvedFrom(_, _, _, _)
unresolvedFrom(linkTexts, k, seenTitles, found) ==
    IF k > Len(linkTexts) THEN found
    ELSE LET lower == lowerText(linkTexts[k])
         IN  IF lower \in seenTitles
             THEN unresolvedFrom(linkTexts, k + 1, seenTitles, found)
             ELSE unresolvedFrom(linkTexts, k + 1, seenTitles \cup {lower},
                                 Append(found,
                                        [path |-> linkTexts[k] \o <<".", "m", "d">>,
                                         title |-> linkTexts[k],
                                         aliases |-> <<>>,
                                         exists |-> FALSE]))

collectUnresolvedNotes(existingNotes, links) ==
    unresolvedFrom(flatten(links), 1,
                   {lowerText(existingNotes[n].title) : n \in 1..Len(existingNotes)}, <<>>)

(* the notes an index is built over *)
notesToIndex(files, links, searchNonExistingNotes) ==
    LET found == pluginCollectNotes(files)
    IN  IF searchNonExistingNotes
        THEN found \o collectUnresolvedNotes(found, links)
        ELSE found

DefaultStemmers == <<"russian", "english">>

(* buildIndex: the field cachedNotes and the index returned *)
buildIndex(files, links, config) ==
    LET all == notesToIndex(files, links, config.searchNonExistingNotes)
    IN  [cachedNotes |-> all, index |-> [notes |-> all, stemmer |-> DefaultStemmers]]

(* clearCache *)
clearCache == [cachedIndex |-> <<>>, cachedNotes |-> <<>>, built |-> FALSE, cleared |-> TRUE]

(* an onTrigger that keeps the cache when the link is closed *)
onTriggerKeepsCache(index, cached, files, links, config, cursor, line) ==
    IF ~config.inlineLinkSuggest THEN clearCache @@ [result |-> <<>>]
    ELSE LET beforeCursor == substring(line, 0, cursor)
             triggerIndex == lastIndexOfText(beforeCursor, open2)
         IN  IF triggerIndex < 0 THEN clearCache @@ [result |-> <<>>]
             ELSE LET afterTrigger == substringFrom(beforeCursor, triggerIndex + 2)
                  IN  IF includes(afterTrigger, close2)
                      THEN [cachedIndex |-> index, cachedNotes |-> cached, built |-> FALSE,
                            cleared |-> FALSE, result |-> <<>>]
                      ELSE LET fresh == buildIndex(files, links, config)
                           IN  [cachedIndex |-> IF index = <<>> THEN <<fresh.index>> ELSE index,
                                cachedNotes |-> IF index = <<>> THEN fresh.cachedNotes
                                                ELSE cached,
                                built |-> index = <<>>,
                                cleared |-> FALSE,
                                result |-> <<[start |-> triggerIndex + 2, end |-> cursor,
                                              query |-> afterTrigger]>>]

(* onTrigger: the two fields afterwards, whether buildIndex and clearCache *)
(* were called, and the trigger returned, none for null                    *)
onTrigger(index, cached, files, links, config, cursor, line) ==
    IF ~config.inlineLinkSuggest THEN clearCache @@ [result |-> <<>>]
    ELSE LET beforeCursor == substring(line, 0, cursor)
             triggerIndex == lastIndexOfText(beforeCursor, open2)
         IN  IF triggerIndex < 0 THEN clearCache @@ [result |-> <<>>]
             ELSE LET afterTrigger == substringFrom(beforeCursor, triggerIndex + 2)
                  IN  IF includes(afterTrigger, close2) THEN clearCache @@ [result |-> <<>>]
                      ELSE LET fresh == buildIndex(files, links, config)
                           IN  [cachedIndex |-> IF index = <<>> THEN <<fresh.index>> ELSE index,
                                cachedNotes |-> IF index = <<>> THEN fresh.cachedNotes
                                                ELSE cached,
                                built |-> index = <<>>,
                                cleared |-> FALSE,
                                result |-> <<[start |-> triggerIndex + 2, end |-> cursor,
                                              query |-> afterTrigger]>>]

(* getSuggestions of the inline suggest *)
inlineGetSuggestions(index, cached, queryText) ==
    IF index = <<>> THEN <<>>
    ELSE IF Len(trim(queryText)) = 0
    THEN [n \in 1..Len(cached) |-> [note |-> cached[n], matchedAlias |-> <<>>]] \o <<>>
    ELSE LET found == search(index[1].stemmer, index[1].notes, queryText).results
         IN  [r \in 1..Len(found) |->
                 [note |-> index[1].notes[found[r].note],
                  matchedAlias |-> found[r].matchedAlias]] \o <<>>

(* The state machine: the editor asks for a trigger as the user types and  *)
(* for suggestions while one is open; settings and vault change meanwhile  *)
md == <<"m", "d">>

(* the vaults: their files and their unresolved links *)
InlineVaults ==
    { [files |-> <<>>, links |-> <<>>],
      [files |-> <<File(<<"n">>, md,
                        <<Raw("array", <<Raw("string", <<"b">>), Raw("number", 1)>>)>>),
                   File(<<"n">>, <<"p", "n", "g">>, <<>>)>>,
       links |-> << <<<<"N">>, <<"b">>>>, <<<<"B">>>> >>] }

PluginSettings ==
    [inlineLinkSuggest : BOOLEAN, searchNonExistingNotes : BOOLEAN]

TriggerChars == {"[", "]"}

(* the lines of brackets, and some lines with a word *)
TriggerLines ==
    SeqsUpTo(TriggerChars, MaxTriggerLine)
        \cup {<<"n">>, open2 \o <<"n">>, open2 \o <<"n">> \o close2,
              <<"n">> \o open2 \o <<"n", " ", "b">>}

InlineQueries == {<<" ">>, <<"n">>}

InitTrigger ==
    /\ NoSearch /\ NoStem /\ NoRecent /\ NoParse /\ NoLink /\ NoChoose /\ NoSession
    /\ NoTrigger /\ NoPatch
    /\ stemmers = <<>>
    /\ suggest = [name |-> "none"]
    /\ \E world \in InlineVaults : vault = world.files /\ unresolvedLinks = world.links
    /\ settings \in PluginSettings

OnTrigger(cursor, line) ==
    /\ \E out \in {onTrigger(cachedIndex, cachedNotes, vault, unresolvedLinks, settings,
                             cursor, line)} :
          /\ cachedIndex' = out.cachedIndex
          /\ cachedNotes' = out.cachedNotes
          /\ builds' = IF out.cleared THEN 0 ELSE IF out.built THEN builds + 1 ELSE builds
          /\ trigger' = [name |-> "onTrigger", beforeCursor |-> substring(line, 0, cursor),
                         enabled |-> settings.inlineLinkSuggest,
                         built |-> out.built,
                         result |-> out.result]
    /\ offered' = [name |-> "none"]
    /\ UNCHANGED <<searchVars, stemVars, recentVars, parseVars, linkVars, suggestVars,
                   chooseVars, sessionVars, pluginVars, patchVars>>

InlineGetSuggestions(queryText) ==
    /\ offered' = [name |-> "getSuggestions", query |-> queryText,
                   result |-> inlineGetSuggestions(cachedIndex, cachedNotes, queryText)]
    /\ UNCHANGED <<searchVars, stemVars, recentVars, parseVars, linkVars, suggestVars,
                   chooseVars, sessionVars, pluginVars, patchVars,
                   cachedIndex, cachedNotes, builds, trigger>>

(* the user changes a setting in the settings tab *)
ChangeSettings(config) ==
    /\ config # settings
    /\ settings' = config
    /\ UNCHANGED <<searchVars, stemVars, recentVars, parseVars, linkVars, suggestVars,
                   chooseVars, sessionVars, unresolvedLinks, triggerVars, patchVars>>

(* files and links of the vault change *)
ChangeVault(world) ==
    /\ world.files # vault
    /\ vault' = world.files
    /\ unresolvedLinks' = world.links
    /\ UNCHANGED <<searchVars, stemVars, recentVars, parseVars, linkVars, suggest,
                   chooseVars, sessionVars, settings, triggerVars, patchVars>>

NextTrigger ==
    \/ \E line \in TriggerLines : \E cursor \in 0..Len(line) : OnTrigger(cursor, line)
    \/ \E queryText \in InlineQueries : InlineGetSuggestions(queryText)
    \/ \E config \in PluginSettings : ChangeSettings(config)
    \/ \E world \in InlineVaults : ChangeVault(world)

SpecTrigger == InitTrigger /\ [][NextTrigger]_vars

(* Vocabulary of the trigger properties *)
LatestTriggered == trigger.name = "onTrigger" /\ trigger.result # <<>>

(* where a pair of the bracket stands in the text before the cursor *)
Pairs(bracket) ==
    {i \in 1..(Len(trigger.beforeCursor) - 1) :
        trigger.beforeCursor[i] = bracket /\ trigger.beforeCursor[i + 1] = bracket}

LastOpening == CHOOSE i \in Pairs("[") : \A j \in Pairs("[") : j <= i

ClosedAgain == \E j \in Pairs("]") : j >= LastOpening + 2

(* the three cases of a null trigger *)
NullCase ==
    \/ ~trigger.enabled
    \/ Pairs("[") = {}
    \/ ClosedAgain

IndexReused ==
    (cachedIndex # <<>> /\ cachedIndex' # <<>>)
        => (cachedIndex' = cachedIndex /\ cachedNotes' = cachedNotes /\ builds' = builds)

C28_Cache ==
    /\ (cachedIndex # <<>>) <=> LatestTriggered
    /\ trigger.name = "onTrigger" => ((trigger.result = <<>>) <=> NullCase)
    /\ cachedIndex = <<>> => (cachedNotes = <<>> /\ builds = 0)
    /\ cachedIndex # <<>> => builds = 1
    /\ (offered.name = "getSuggestions" /\ cachedIndex = <<>>) => offered.result = <<>>

(* C28: the cached index is non-null exactly when the latest onTrigger     *)
(* call returned a trigger; a call returns null exactly when the setting   *)
(* is disabled, no [[ stands before the cursor or a ]] stands between the  *)
(* last [[ and the cursor, and then the index is null and the cached notes *)
(* are empty; a cached index was built by one buildIndex call and stays    *)
(* the same index from one successful trigger to the next; getSuggestions  *)
(* returns the empty list when no index is cached.                         *)
C28_CachedIndex == [](C28_Cache) /\ [][IndexReused]_vars

(* a successful trigger that reused its index, which is not the one a      *)
(* build would give now, and suggestions asked of it                       *)
C28_Witness ==
    /\ LatestTriggered
    /\ ~trigger.built
    /\ cachedIndex[1].notes # notesToIndex(vault, unresolvedLinks,
                                           settings.searchNonExistingNotes)
    /\ cachedIndex[1].notes # <<>>
    /\ builds = 1
    /\ offered.name = "getSuggestions"
    /\ offered.result # <<>>

----------------------------------------------------------------------------
(* The patch of the native [[ suggest: wrappers of getSuggestions and      *)
(* selectSuggestion, a keydown handler, and their removal on unload.       *)
(* The operators work on a record w of what a handler reads and writes:    *)
(* config (the settings), files and links (the vault), items               *)
(* (lastSuggestItems), pendingQuery, pendingTitle and pendingEditor (the   *)
(* pending special-char fields), ledger (the recent notes), page (the line *)
(* of the editor and its cursor), context and values (of the native        *)
(* suggest: its trigger context and the items it shows), now (the clock),  *)
(* and of what it does: originals (the calls of the original methods, with *)
(* their arguments), result (the value returned) and prevented (whether    *)
(* the key event was stopped).                                             *)

(* a NativeSuggestItem; file, alias and linktext are optional *)
NativeSuggestItem(type, file, path, alias, linktext) ==
    [type |-> type, file |-> file, path |-> path, alias |-> alias, linktext |-> linktext]

(* a keyboard or mouse event *)
KeyboardEvent(key, shiftKey, ctrlKey) ==
    [keyboard |-> TRUE, key |-> key, shiftKey |-> shiftKey, ctrlKey |-> ctrlKey,
     metaKey |-> FALSE, altKey |-> FALSE]

MouseEvent ==
    [keyboard |-> FALSE, key |-> "", shiftKey |-> FALSE, ctrlKey |-> FALSE,
     metaKey |-> FALSE, altKey |-> FALSE]

(* String.prototype.substring(start, end) with its swap of the arguments *)
substringSwap(text, a, b) ==
    IF a <= b THEN substring(text, a, b) ELSE substring(text, b, a)

(* String.prototype.replace(/\.md$/, "") *)
stripMd(text) ==
    IF endsWith(text, <<".", "m", "d">>) THEN SubSeq(text, 1, Len(text) - 3) ELSE text

(* Editor.replaceRange on the line of the page *)
replaceRange(page, text, from, to) ==
    [page EXCEPT !.line = substring(page.line, 0, from) \o text \o substringFrom(page.line, to)]

setCursor(page, ch) == [page EXCEPT !.cursor = ch]

(* the context the native suggest holds for a page: the text between the   *)
(* last [[ before the cursor and the cursor, unless the link is closed     *)
contextOf(page) ==
    LET beforeCursor == substring(page.line, 0, page.cursor)
        triggerIndex == lastIndexOfText(beforeCursor, open2)
    IN  IF triggerIndex < 0 \/ includes(substringFrom(beforeCursor, triggerIndex + 2), close2)
        THEN <<>>
        ELSE <<[start |-> triggerIndex + 2, end |-> page.cursor,
                query |-> substringFrom(beforeCursor, triggerIndex + 2)]>>

(* where a link begins and ends for a context: the [[ before its start and *)
(* the ]] after its end are part of it                                     *)
linkFrom(page, ctx) ==
    IF ctx.start >= 2 /\ substring(page.line, ctx.start - 2, ctx.start) = open2
    THEN ctx.start - 2 ELSE ctx.start

linkTo(page, ctx) ==
    IF ctx.end + 2 <= Len(page.line) /\ substring(page.line, ctx.end, ctx.end + 2) = close2
    THEN ctx.end + 2 ELSE ctx.end

(* suggest.close() *)
close(w) == [w EXCEPT !.context = <<>>, !.values = <<>>, !.selectedItem = 0]

(* The original methods of the native suggest.  getSuggestions answers a   *)
(* context with an item of its own                                         *)
nativeItems(ctx) == <<NativeSuggestItem("native", <<>>, <<"h">>, <<>>, <<>>)>>

origGetSuggestions(w, ctx) ==
    [w EXCEPT !.originals = Append(@, [method |-> "getSuggestions", context |-> ctx]),
              !.result = nativeItems(ctx)]

(* the text the native suggest links an item with *)
nativeLinkText(item) ==
    IF item.file # <<>>
    THEN IF item.file[1].extension = md THEN item.file[1].basename ELSE item.file[1].name
    ELSE IF item.linktext # <<>> THEN item.linktext[1]
    ELSE item.path

(* selectSuggestion inserts the link of the item; on # or ^ it accepts the *)
(* file and goes on with the completion of a heading or a block            *)
origSelectSuggestion(w, item, evt) ==
    LET logged == [w EXCEPT !.originals = Append(@, [method |-> "selectSuggestion",
                                                     item |-> item, evt |-> evt])]
    IN  IF w.context = <<>> THEN logged
        ELSE LET ctx == w.context[1]
                 from == linkFrom(w.page, ctx)
                 to == linkTo(w.page, ctx)
                 special == evt.keyboard /\ evt.key \in {"#", "^"}
                 text == open2 \o nativeLinkText(item)
                            \o (IF special THEN <<evt.key>> ELSE <<>>) \o close2
                 written == replaceRange(w.page, text, from, to)
             IN  IF special
                 THEN LET placed == setCursor(written, from + Len(text) - 2)
                      IN  [logged EXCEPT !.page = placed, !.context = contextOf(placed)]
                 ELSE close([logged EXCEPT !.page = setCursor(written, from + Len(text))])

(* recordNoteSelection *)
recordNoteSelection(w, title) == [w EXCEPT !.ledger = record(@, title, w.now)]

(* getLinkTitle *)
getLinkTitle(item, fallbackQuery) ==
    IF item.file # <<>> /\ item.file[1].basename # <<>>
    THEN IF item.file[1].extension = md THEN item.file[1].basename ELSE item.file[1].name
    ELSE IF truthy(item.linktext) THEN item.linktext[1]
    ELSE stripMd(IF item.path # <<>> THEN item.path ELSE fallbackQuery)

(* suggestItemTitle *)
suggestItemTitle(item) ==
    IF item.file # <<>> /\ item.file[1].basename # <<>>
    THEN IF item.file[1].extension = md THEN item.file[1].basename ELSE item.file[1].name
    ELSE IF truthy(item.linktext) THEN item.linktext[1]
    ELSE item.path

(* whether note.exists === false *)
notExisting(note) == "exists" \in DOMAIN note /\ note.exists = FALSE

(* the item of a search result *)
resultItem(w, note, matchedAlias) ==
    IF notExisting(note)
    THEN NativeSuggestItem("linktext", <<>>, note.title, <<>>, <<note.title>>)
    ELSE IF truthy(matchedAlias)
    THEN NativeSuggestItem("alias", getAbstractFileByPath(w.files, note.path),
                           stripMd(note.path), matchedAlias, <<>>)
    ELSE NativeSuggestItem("file", getAbstractFileByPath(w.files, note.path),
                           stripMd(note.path), <<>>, <<>>)

(* buildNativeSuggestItems: the items returned, cached in lastSuggestItems *)
buildNativeSuggestItems(w, queryText) ==
    const(notesToIndex(w.files, w.links, w.config.searchNonExistingNotes), LAMBDA corpus :
    const(search(DefaultStemmers, corpus, queryText).results, LAMBDA found :
    const([r \in 1..Len(found) |->
              resultItem(w, corpus[found[r].note], found[r].matchedAlias)] \o <<>>,
          LAMBDA mdItems :
    const(lowerText(queryText), LAMBDA lowerQuery :
    const(SelectSeq(w.files,
                    LAMBDA f : /\ f.extension # md
                               /\ \/ includes(lowerText(f.basename), lowerQuery)
                                  \/ includes(lowerText(f.path), lowerQuery)),
          LAMBDA nonMd :
    const([f \in 1..Len(nonMd) |->
              NativeSuggestItem("file", <<nonMd[f]>>, nonMd[f].path, <<>>, <<>>)] \o <<>>,
          LAMBDA nonMdItems :
    const(mdItems \o nonMdItems, LAMBDA combined :
    const([i \in 1..Len(combined) |->
              [title |-> suggestItemTitle(combined[i]), item |-> combined[i]]] \o <<>>,
          LAMBDA titled :
    const(boostRecent(w.ledger, titled, <<MAX_BOOST_COUNT>>).value, LAMBDA ranked :
    const([i \in 1..Len(ranked) |-> ranked[i].item] \o <<>>, LAMBDA boosted :
          [w EXCEPT !.items = boosted, !.result = boosted]))))))))))

(* clearPendingSpecialChar *)
clearPendingSpecialChar(w) ==
    [w EXCEPT !.pendingQuery = <<>>, !.pendingTitle = <<>>, !.pendingEditor = <<>>]

(* findSpecialCharIndex *)
findSpecialCharIndex(queryText) ==
    LET found == {i \in 1..(Len(queryText) - 1) : queryText[i + 1] \in {"#", "^"}}
    IN  IF found = {} THEN -1 ELSE CHOOSE i \in found : \A j \in found : i <= j

(* handleHeadingBlockQuery *)
handleHeadingBlockQuery(w, ctx, queryText, specialIdx) ==
    LET specialPart == substringFrom(queryText, specialIdx)
    IN  IF truthy(w.pendingTitle)
        THEN origGetSuggestions(w, [ctx EXCEPT !.query = w.pendingTitle[1] \o specialPart])
        ELSE LET noteQuery == trim(substring(queryText, 0, specialIdx))
             IN  IF Len(noteQuery) = 0 THEN origGetSuggestions(w, ctx)
                 ELSE const(buildNativeSuggestItems(w, noteQuery), LAMBDA built :
                          IF Len(built.result) = 0 THEN origGetSuggestions(built, ctx)
                          ELSE const(getLinkTitle(built.result[1], noteQuery), LAMBDA title :
                               const(recordNoteSelection(
                                         [built EXCEPT !.pendingQuery = <<noteQuery>>,
                                                       !.pendingTitle = <<title>>,
                                                       !.pendingEditor = <<"editor">>],
                                         title),
                                     LAMBDA saved :
                                     origGetSuggestions(
                                         saved, [ctx EXCEPT !.query = title \o specialPart]))))

(* the wrapper of getSuggestions *)
wrappedGetSuggestions(w, ctx) ==
    IF ~w.config.inlineLinkSuggest THEN origGetSuggestions(w, ctx)
    ELSE IF Len(trim(ctx.query)) = 0
    THEN origGetSuggestions(clearPendingSpecialChar(w), ctx)
    ELSE IF findSpecialCharIndex(ctx.query) > 0
    THEN handleHeadingBlockQuery(w, ctx, ctx.query, findSpecialCharIndex(ctx.query))
    ELSE buildNativeSuggestItems(
             IF w.pendingQuery # <<>> THEN clearPendingSpecialChar(w) ELSE w, ctx.query)

(* the replacement insertPipedLink and insertLinkWithCursorBeforeClose     *)
(* make: the link in place of the text from [[ to ]], the cursor as many   *)
(* characters before the end of the link as back says, the suggest closed  *)
insertAt(w, linkText, back) ==
    LET ctx == w.context[1]
        from == linkFrom(w.page, ctx)
        to == linkTo(w.page, ctx)
        written == replaceRange(w.page, linkText, from, to)
    IN  close([w EXCEPT !.page = setCursor(written, from + Len(linkText) - back)])

(* insertPipedLink *)
insertPipedLink(w, item, evt) ==
    IF w.context = <<>> THEN w
    ELSE LET queryText == trim(w.context[1].query)
             title == getLinkTitle(item, queryText)
         IN  IF evt.keyboard /\ evt.shiftKey
             THEN insertAt(w, open2 \o queryText \o <<"|">> \o queryText \o close2, 0)
             ELSE insertAt(recordNoteSelection(w, title),
                           open2 \o title \o <<"|">> \o queryText \o close2, 0)

(* insertLinkWithCursorBeforeClose *)
insertLinkWithCursorBeforeClose(w, title, queryText) ==
    IF w.context = <<>> THEN w
    ELSE recordNoteSelection(
             insertAt(w, open2 \o title \o <<"|">> \o queryText \o close2, 2), title)

(* handleSpecialCharInSuggest *)
handleSpecialCharInSuggest(w, item) ==
    IF w.context = <<>> THEN w
    ELSE LET queryText == trim(w.context[1].query)
         IN  IF Len(queryText) = 0 THEN w
             ELSE insertLinkWithCursorBeforeClose(w, getLinkTitle(item, queryText), queryText)

(* handlePostSpecialCharSelect *)
handlePostSpecialCharSelect(w, item, evt) ==
    LET savedQuery == w.pendingQuery
        savedEditor == w.pendingEditor
        cleared == clearPendingSpecialChar(w)
    IN  IF ~truthy(savedQuery) \/ savedEditor = <<>> THEN origSelectSuggestion(cleared, item, evt)
        ELSE IF evt.keyboard /\ evt.shiftKey THEN origSelectSuggestion(cleared, item, evt)
        ELSE const(origSelectSuggestion(cleared, item, evt), LAMBDA inserted :
             LET textUpToCursor == substring(inserted.page.line, 0, inserted.page.cursor)
                 closeBracketIdx == lastIndexOfText(textUpToCursor, close2)
                 openBracketIdx == lastIndexOfText(textUpToCursor, open2)
                 pipeText == <<"|">> \o savedQuery[1]
             IN  IF closeBracketIdx < 0 THEN inserted
                 ELSE IF /\ openBracketIdx >= 0
                         /\ includes(substringSwap(textUpToCursor, openBracketIdx + 2,
                                                   closeBracketIdx), <<"|">>)
                 THEN inserted
                 ELSE [inserted EXCEPT
                          !.page = setCursor(replaceRange(@, pipeText, closeBracketIdx,
                                                          closeBracketIdx),
                                             closeBracketIdx + Len(pipeText) + 2)])

(* the branch of the selectSuggestion wrapper for the keys # and ^ *)
selectOnSpecialChar(w, item, evt) ==
    const(IF w.context = <<>> THEN <<>> ELSE trim(w.context[1].query), LAMBDA queryText :
    const(IF Len(queryText) > 0
          THEN recordNoteSelection(
                   [w EXCEPT !.pendingQuery = <<queryText>>,
                             !.pendingEditor = <<"editor">>,
                             !.pendingTitle = <<getLinkTitle(item, queryText)>>],
                   getLinkTitle(item, queryText))
          ELSE w, LAMBDA saved :
    const(origSelectSuggestion(saved, item, evt), LAMBDA inserted :
    LET savedCursor == inserted.page.cursor
        closeBracketIdx == indexOfTextFrom(inserted.page.line, close2, savedCursor)
    IN  IF Len(queryText) > 0 /\ inserted.pendingEditor # <<>> /\ closeBracketIdx >= 0
        THEN [inserted EXCEPT
                 !.page = setCursor(replaceRange(@, <<"|">> \o queryText, closeBracketIdx,
                                                 closeBracketIdx),
                                    savedCursor)]
        ELSE inserted)))

(* the wrapper that leaves out the check of the setting *)
wrappedSelectSuggestionAlwaysOn(w, item, evt) ==
    IF w.pendingQuery # <<>> THEN handlePostSpecialCharSelect(w, item, evt)
    ELSE IF evt.keyboard /\ evt.key \in {"#", "^"} THEN selectOnSpecialChar(w, item, evt)
    ELSE insertPipedLink(w, item, evt)

(* the wrapper of selectSuggestion *)
wrappedSelectSuggestion(w, item, evt) ==
    IF ~w.config.inlineLinkSuggest THEN origSelectSuggestion(w, item, evt)
    ELSE IF w.pendingQuery # <<>> THEN handlePostSpecialCharSelect(w, item, evt)
    ELSE IF evt.keyboard /\ evt.key \in {"#", "^"} THEN selectOnSpecialChar(w, item, evt)
    ELSE insertPipedLink(w, item, evt)

(* getSelectedSuggestItem: the item the native suggest has selected *)
getSelectedSuggestItem(w) ==
    IF Len(w.values) > 0
    THEN IF w.selectedItem + 1 \in 1..Len(w.values) THEN <<w.values[w.selectedItem + 1]>>
         ELSE <<w.values[1]>>
    ELSE <<>>

(* the keydown handler *)
keyHandler(w, evt) ==
    IF ~w.config.inlineLinkSuggest THEN w
    ELSE IF w.context = <<>> THEN w
    ELSE IF evt.key = "Escape" THEN clearPendingSpecialChar(w)
    ELSE LET queryText == w.context[1].query
         IN  IF Len(trim(queryText)) = 0 THEN w
             ELSE IF \E i \in 1..Len(queryText) : queryText[i] \in {"#", "^", "|"} THEN w
             ELSE IF evt.ctrlKey \/ evt.metaKey \/ evt.altKey THEN w
             ELSE IF evt.key # "|" THEN w
             ELSE LET selected == getSelectedSuggestItem(w)
                      item == IF selected # <<>> THEN selected
                              ELSE IF Len(w.items) > 0 THEN <<w.items[1]>> ELSE <<>>
                  IN  IF item = <<>> THEN w
                      ELSE handleSpecialCharInSuggest([w EXCEPT !.prevented = TRUE], item[1])

(* The state machine: the layout gets ready and the suggest is patched;    *)
(* the user edits the page, the native suggest asks for suggestions, the   *)
(* user moves in the list, selects and presses keys, and changes the       *)
(* setting; at last the plugin is unloaded                                 *)

MaxPage == 8

(* the selections of one editing of the page *)
MaxSelects == 2

(* a method of the suggest: what it calls, and whether this is bound *)
nativeMethod == [calls |-> "native", bound |-> FALSE]

bind(method) == [method EXCEPT !.bound = TRUE]

wrapper == [calls |-> "wrapper", bound |-> FALSE]

Page(line, cursor) == [line |-> line, cursor |-> cursor]

PatchPages ==
    { Page(<<"n">>, 1),
      Page(open2 \o <<"n">> \o close2, 3),
      Page(open2 \o <<"n", "#">> \o close2, 4),
      Page(open2 \o <<" ">> \o close2, 3),
      Page(open2 \o <<"z">>, 3) }

SelectEvents ==
    { KeyboardEvent("Enter", FALSE, FALSE), KeyboardEvent("Enter", TRUE, FALSE),
      KeyboardEvent("#", FALSE, FALSE), KeyboardEvent("^", FALSE, FALSE), MouseEvent }

KeyEvents ==
    { KeyboardEvent("|", TRUE, FALSE), KeyboardEvent("|", FALSE, TRUE),
      KeyboardEvent("Escape", FALSE, FALSE), KeyboardEvent("n", FALSE, FALSE) }

(* the clock runs after the entries of the ledger *)
PatchClock == {2}

PatchLedgers == {<<Entry(<<"n", ".", "p", "n", "g">>, 1)>>}

(* what a handler reads *)
World(now) ==
    [config |-> settings, files |-> vault, links |-> unresolvedLinks,
     items |-> lastSuggestItems, pendingQuery |-> pendingSpecialCharQuery,
     pendingTitle |-> pendingSpecialCharTitle, pendingEditor |-> pendingSpecialCharEditor,
     ledger |-> entries, page |-> doc, context |-> nativeSuggest.context,
     values |-> nativeSuggest.values, selectedItem |-> nativeSuggest.selectedItem,
     now |-> now, originals |-> <<>>, result |-> <<>>, prevented |-> FALSE]

(* what a handler has written *)
Written(out) ==
    /\ lastSuggestItems' = out.items
    /\ pendingSpecialCharQuery' = out.pendingQuery
    /\ pendingSpecialCharTitle' = out.pendingTitle
    /\ pendingSpecialCharEditor' = out.pendingEditor
    /\ entries' = out.ledger
    /\ doc' = out.page

InitPatch ==
    /\ NoSearch /\ NoStem /\ NoParse /\ NoLink /\ NoChoose /\ NoSession /\ NoTrigger
    /\ stemmers = <<>>
    /\ suggest = [name |-> "none"]
    /\ call = [name |-> "none"]
    /\ \E world \in InlineVaults :
          world.files # <<>> /\ vault = world.files /\ unresolvedLinks = world.links
    /\ settings \in PluginSettings
    /\ settings.searchNonExistingNotes
    /\ entries \in PatchLedgers
    /\ \E present \in BOOLEAN :
          nativeSuggest = [present |-> present, getSuggestions |-> nativeMethod,
                           selectSuggestion |-> nativeMethod, context |-> <<>>,
                           values |-> <<>>, selectedItem |-> 0]
    /\ lastSuggestItems = <<>>
    /\ pendingSpecialCharQuery = <<>>
    /\ pendingSpecialCharTitle = <<>>
    /\ pendingSpecialCharEditor = <<>>
    /\ doc = Page(<<>>, 0)
    /\ patch = [phase |-> "loaded", installed |-> FALSE,
                origGetSuggestions |-> nativeMethod, origSelectSuggestion |-> nativeMethod,
                keydown |-> FALSE, selects |-> 0, last |-> [name |-> "onload"]]

(* patchNativeSuggest, when the layout is ready *)
PatchNativeSuggest ==
    /\ patch.phase = "loaded"
    /\ IF ~nativeSuggest.present
       THEN /\ patch' = [patch EXCEPT !.phase = "ready", !.last = [name |-> "patchNativeSuggest"]]
            /\ UNCHANGED nativeSuggest
       ELSE /\ patch' = [patch EXCEPT
                            !.phase = "ready", !.installed = TRUE,
                            !.origGetSuggestions = bind(nativeSuggest.getSuggestions),
                            !.origSelectSuggestion = bind(nativeSuggest.selectSuggestion),
                            !.keydown = TRUE,
                            !.last = [name |-> "patchNativeSuggest"]]
            /\ nativeSuggest' = [nativeSuggest EXCEPT !.getSuggestions = wrapper,
                                                      !.selectSuggestion = wrapper]
    /\ UNCHANGED <<searchVars, stemVars, recentVars, parseVars, linkVars, suggestVars,
                   chooseVars, sessionVars, pluginVars, triggerVars, lastSuggestItems,
                   pendingSpecialCharQuery, pendingSpecialCharTitle,
                   pendingSpecialCharEditor, doc>>

(* the user edits the page: the suggest opens or closes with it *)
EditPage(page) ==
    /\ page # doc
    /\ doc' = page
    /\ nativeSuggest' = [nativeSuggest EXCEPT
                            !.context = IF nativeSuggest.present THEN contextOf(page) ELSE <<>>,
                            !.values = <<>>, !.selectedItem = 0]
    /\ patch' = [patch EXCEPT !.selects = 0, !.last = [name |-> "edit"]]
    /\ UNCHANGED <<searchVars, stemVars, recentVars, parseVars, linkVars, suggestVars,
                   chooseVars, sessionVars, pluginVars, triggerVars, lastSuggestItems,
                   pendingSpecialCharQuery, pendingSpecialCharTitle,
                   pendingSpecialCharEditor>>

(* the suggest calls its getSuggestions with its context and shows the     *)
(* items returned                                                          *)
CallGetSuggestions(now) ==
    /\ nativeSuggest.context # <<>>
    /\ \E out \in {IF nativeSuggest.getSuggestions.calls = "wrapper"
                   THEN wrappedGetSuggestions(World(now), nativeSuggest.context[1])
                   ELSE origGetSuggestions(World(now), nativeSuggest.context[1])} :
          /\ Written(out)
          /\ nativeSuggest' = [nativeSuggest EXCEPT !.context = out.context,
                                                    !.values = out.result,
                                                    !.selectedItem = 0]
          /\ patch' = [patch EXCEPT !.last = [name |-> "getSuggestions",
                                              enabled |-> settings.inlineLinkSuggest,
                                              originals |-> out.originals]]
    /\ UNCHANGED <<searchVars, stemVars, parseVars, call, linkVars, suggestVars,
                   chooseVars, sessionVars, pluginVars, triggerVars>>

(* the user moves to another item of the list *)
MoveSelection(k) ==
    /\ k < Len(nativeSuggest.values)
    /\ k # nativeSuggest.selectedItem
    /\ nativeSuggest' = [nativeSuggest EXCEPT !.selectedItem = k]
    /\ patch' = [patch EXCEPT !.last = [name |-> "move"]]
    /\ UNCHANGED <<searchVars, stemVars, recentVars, parseVars, linkVars, suggestVars,
                   chooseVars, sessionVars, pluginVars, triggerVars, lastSuggestItems,
                   pendingSpecialCharQuery, pendingSpecialCharTitle,
                   pendingSpecialCharEditor, doc>>

(* the suggest calls its selectSuggestion with the item selected *)
CallSelectSuggestion(evt, now) ==
    /\ nativeSuggest.selectedItem < Len(nativeSuggest.values)
    /\ Len(doc.line) <= MaxPage
    /\ patch.selects < MaxSelects
    /\ \E item \in {nativeSuggest.values[nativeSuggest.selectedItem + 1]} :
       \E out \in {IF nativeSuggest.selectSuggestion.calls = "wrapper"
                   THEN wrappedSelectSuggestion(World(now), item, evt)
                   ELSE origSelectSuggestion(World(now), item, evt)} :
          /\ Written(out)
          /\ nativeSuggest' = [nativeSuggest EXCEPT !.context = out.context,
                                                    !.values = out.values,
                                                    !.selectedItem = out.selectedItem]
          /\ patch' = [patch EXCEPT !.selects = @ + 1,
                                    !.last = [name |-> "selectSuggestion",
                                              enabled |-> settings.inlineLinkSuggest,
                                              originals |-> out.originals]]
    /\ UNCHANGED <<searchVars, stemVars, parseVars, call, linkVars, suggestVars,
                   chooseVars, sessionVars, pluginVars, triggerVars>>

(* a key goes down in the document *)
KeyDown(evt, now) ==
    /\ patch.keydown
    /\ \E out \in {keyHandler(World(now), evt)} :
          /\ Written(out)
          /\ nativeSuggest' = [nativeSuggest EXCEPT !.context = out.context,
                                                    !.values = out.values,
                                                    !.selectedItem = out.selectedItem]
          /\ patch' = [patch EXCEPT !.last = [name |-> "keydown",
                                              enabled |-> settings.inlineLinkSuggest,
                                              originals |-> out.originals,
                                              prevented |-> out.prevented]]
    /\ UNCHANGED <<searchVars, stemVars, parseVars, call, linkVars, suggestVars,
                   chooseVars, sessionVars, pluginVars, triggerVars>>

(* the callback registered for the unload of the plugin; the layout was    *)
(* ready before                                                            *)
Unload ==
    /\ patch.phase = "ready"
    /\ IF patch.installed
       THEN /\ nativeSuggest' = [nativeSuggest EXCEPT
                                    !.getSuggestions = patch.origGetSuggestions,
                                    !.selectSuggestion = patch.origSelectSuggestion]
            /\ pendingSpecialCharQuery' = <<>>
            /\ pendingSpecialCharTitle' = <<>>
            /\ pendingSpecialCharEditor' = <<>>
       ELSE UNCHANGED <<nativeSuggest, pendingSpecialCharQuery, pendingSpecialCharTitle,
                        pendingSpecialCharEditor>>
    /\ patch' = [patch EXCEPT !.phase = "unloaded", !.keydown = FALSE,
                              !.last = [name |-> "unload", after |-> patch.last,
                                        pendingQuery |-> pendingSpecialCharQuery]]
    /\ UNCHANGED <<searchVars, stemVars, recentVars, parseVars, linkVars, suggestVars,
                   chooseVars, sessionVars, pluginVars, triggerVars, lastSuggestItems, doc>>

NextPatch ==
    \/ PatchNativeSuggest
    \/ \E page \in PatchPages : EditPage(page)
    \/ \E now \in PatchClock : CallGetSuggestions(now)
    \/ \E k \in 0..1 : MoveSelection(k)
    \/ \E evt \in SelectEvents, now \in PatchClock : CallSelectSuggestion(evt, now)
    \/ \E evt \in KeyEvents, now \in PatchClock : KeyDown(evt, now)
    \/ \E config \in PluginSettings :
          config.searchNonExistingNotes = settings.searchNonExistingNotes
              /\ ChangeSettings(config)
    \/ Unload

SpecPatch == InitPatch /\ [][NextPatch]_vars

(* Vocabulary of the patch properties *)
Installed == patch.phase = "ready" /\ patch.installed

NothingPending ==
    /\ pendingSpecialCharQuery = <<>>
    /\ pendingSpecialCharTitle = <<>>
    /\ pendingSpecialCharEditor = <<>>

(* the plugin state the claim names is left as it was *)
PluginStateKept ==
    UNCHANGED <<pendingSpecialCharQuery, pendingSpecialCharTitle, pendingSpecialCharEditor,
                lastSuggestItems, entries>>

SelectedItem == nativeSuggest.values[nativeSuggest.selectedItem + 1]

(* a call of the getSuggestions wrapper calls the original once, with the  *)
(* context it was given, returns what the original returns and writes      *)
(* nothing                                                                 *)
GetSuggestionsPassedOn ==
    \A now \in PatchClock :
        CallGetSuggestions(now) =>
            /\ patch'.last.originals =
                   <<[method |-> "getSuggestions", context |-> nativeSuggest.context[1]]>>
            /\ nativeSuggest'.values = nativeItems(nativeSuggest.context[1])
            /\ PluginStateKept
            /\ doc' = doc

(* a call of the selectSuggestion wrapper calls the original once, with    *)
(* the item and the event it was given, and writes nothing: the editor     *)
(* holds what the original alone leaves there                              *)
SelectSuggestionPassedOn ==
    \A evt \in SelectEvents, now \in PatchClock :
        CallSelectSuggestion(evt, now) =>
            /\ patch'.last.originals =
                   <<[method |-> "selectSuggestion", item |-> SelectedItem, evt |-> evt]>>
            /\ PluginStateKept
            /\ doc' = origSelectSuggestion(World(now), SelectedItem, evt).page

(* the key handler does nothing *)
KeyIgnored ==
    \A evt \in KeyEvents, now \in PatchClock :
        KeyDown(evt, now) =>
            /\ patch'.last.originals = <<>>
            /\ ~patch'.last.prevented
            /\ PluginStateKept
            /\ doc' = doc
            /\ nativeSuggest' = nativeSuggest

PassThrough ==
    (Installed /\ ~settings.inlineLinkSuggest)
        => (GetSuggestionsPassedOn /\ SelectSuggestionPassedOn /\ KeyIgnored)

(* the methods of the suggest call the original ones again *)
Restored ==
    patch.phase = "unloaded"
        => /\ nativeSuggest.getSuggestions.calls = "native"
           /\ nativeSuggest.selectSuggestion.calls = "native"
           /\ ~patch.keydown
           /\ NothingPending

(* C27: while inlineLinkSuggest is disabled, the wrapped getSuggestions    *)
(* and selectSuggestion call the original method once with the arguments   *)
(* they were given and the key handler returns at once; none of them       *)
(* changes the pending special-char fields, the cached suggest items or    *)
(* the recency ledger, and none writes to the editor: its text is left as  *)
(* it was, or as the original selectSuggestion alone leaves it.  After the *)
(* unload the methods of the suggest are the original ones, the key        *)
(* handler is removed and nothing is pending.                              *)
C27_PassThrough == [][PassThrough]_vars /\ []Restored

(* an unload right after a selection that passed through the disabled      *)
(* wrapper while a special-char query was pending, suggest items were      *)
(* cached and the ledger held entries                                      *)
C27_Witness ==
    /\ patch.phase = "unloaded"
    /\ patch.installed
    /\ patch.last.name = "unload"
    /\ patch.last.after.name = "selectSuggestion"
    /\ ~patch.last.after.enabled
    /\ patch.last.pendingQuery # <<>>
    /\ lastSuggestItems # <<>>
    /\ entries # <<>>
    /\ NothingPending

====
